---- MODULE Spec2Model ----
(***************************************************************************)
(* Order approval / stock verification reconciliation of the ramjet        *)
(* back-office (backend/app/services/stock_verification_service.py,        *)
(* backend/app/api/orders.py, backend/app/api/stock_verification.py).      *)
(*                                                                         *)
(* One order with its line items, the cartons its verifications are        *)
(* created from, and the HTTP requests that work on it.  Every request     *)
(* runs in its own database session (get_db): it reads committed rows,     *)
(* keeps its own uncommitted writes until db.commit(), and an UPDATE of a  *)
(* row another session has written and not yet committed waits for that    *)
(* session (PostgreSQL READ COMMITTED, the engine default).                *)
(*                                                                         *)
(* A step of a request is one group of database statements: the first      *)
(* reads with their status test, a flush (UPDATE), the reads and decision  *)
(* of the completion check, the writes of the generation, the commit.      *)
(* Objects a session has loaded stay as loaded until it commits            *)
(* (SQLAlchemy identity map).  The transient status verified is flushed    *)
(* and replaced by works_order_generated inside one generation step.       *)
(***************************************************************************)
EXTENDS Integers, Sequences, FiniteSets, TLC

\* ---------------------------------------------------------------- bounds
MaxQty == 2
MaxAdjustments == 1
MaxScans == 2
MaxVerifications == 4
MaxBarcodes == 3
MaxLabels == 2
MaxThreshold == 2
MaxTasks == 3

\* ------------------------------------------------------- carrier sets
Items == {1, 2}
Cartons == {1, 2}
Sessions == {1, 2}

\* Optional values (Python None / SQL NULL): <<>> is None, <<x>> is x.
Null == <<>>
Some(x) == <<x>>
IsNull(o) == o = <<>>
Val(o) == o[1]

\* Quantities a warehouse user can post: StockVerificationConfirm has a
\* plain int, so a negative count and a count above the order are accepted.
VerifiedQtys == (0 - 1) .. (MaxQty + 1)

VARIABLES
    created,    \* the order's verifications have been created
    order,      \* committed Order row: status, office_order_file
    items,      \* committed OrderLineItem rows
    verifs,     \* committed StockVerification rows, in creation order
    cartons,    \* committed StockItem rows
    movements,  \* committed StockMovement rows: for every carton its
                \* movements (stock_item.movements), in insertion order
    stocktake,  \* the stocktake session and its StocktakeScan rows
    labels,     \* the barcode identifiers of one product, colour and day:
                \* those stored on StockItem rows and the callers of
                \* generate_barcode_ids
    summary,    \* one row of the stock summary: the units in stock of a
                \* product and colour, its thresholds and its status
    poller,     \* the GmailPoller singleton, its polling tasks and the
                \* start and stop requests in flight
    sess,       \* one database session per request slot
    writes      \* how often each document column has been written, and
                \* how the last failed generation ended

vars == <<created, order, items, verifs, cartons, movements, stocktake,
          labels, summary, poller, sess, writes>>

\* The line items of the order (order.line_items).
LineItems == DOMAIN items

\* ---------------------------------------------------------- documents
\* The document generator is a pure function of its arguments; a document
\* is modelled by the values it prints.
generate_office_order(its) ==
    [quantities |-> [i \in DOMAIN its |-> its[i].quantity]]

\* Variant without the fallback to the ordered quantity.
generate_works_order_no_fallback(item, adjusted_quantity, verified_stock) ==
    [produce |-> IF IsNull(adjusted_quantity) THEN 0
                 ELSE Val(adjusted_quantity),
     ordered |-> item.quantity,
     stock   |-> verified_stock]

generate_works_order(item, adjusted_quantity, verified_stock) ==
    [produce |-> IF IsNull(adjusted_quantity) THEN item.quantity
                 ELSE Val(adjusted_quantity),
     ordered |-> item.quantity,
     stock   |-> verified_stock]

\* ------------------------------------------------------ stock levels
RECURSIVE SumQuantity(_, _)
SumQuantity(cs, S) ==
    IF S = {} THEN 0
    ELSE LET c == CHOOSE x \in S : TRUE
         IN cs[c].quantity + SumQuantity(cs, S \ {c})

\* Variant without the in_stock filter.
get_stock_levels_any_status(cs, product_code, colour) ==
    LET rows == {c \in DOMAIN cs : /\ cs[c].product_code = product_code
                                   /\ cs[c].colour = colour}
    IN IF rows = {} THEN <<>>
       ELSE << [carton_count |-> Cardinality(rows),
                total_quantity |-> SumQuantity(cs, rows)] >>

\* get_stock_levels(db, product_code, colour) with both filters given: the
\* in_stock cartons of that product and colour, as the list of group rows
\* (no row when no carton matches).
get_stock_levels(cs, product_code, colour) ==
    LET rows == {c \in DOMAIN cs : /\ cs[c].status = "in_stock"
                                   /\ cs[c].product_code = product_code
                                   /\ cs[c].colour = colour}
    IN IF rows = {} THEN <<>>
       ELSE << [carton_count |-> Cardinality(rows),
                total_quantity |-> SumQuantity(cs, rows)] >>

\* ------------------------------------------- create_verifications_for_order
\* "" stands for both None and the empty string: the code only tests
\* truthiness of product_code and colour.
EffectiveProductCode(item) ==
    IF item.matched_product_code # "" THEN item.matched_product_code
    ELSE item.product_code

\* The verification create_verifications_for_order adds for one line item,
\* as a list of zero or one rows.
VerificationFor(cs, its, i) ==
    LET product_code == EffectiveProductCode(its[i])
        colour == its[i].colour
        levels == get_stock_levels(cs, product_code, colour)
    IN IF product_code = "" \/ colour = "" THEN <<>>
       ELSE IF levels = <<>> THEN <<>>
       ELSE IF levels[1].total_quantity <= 0 THEN <<>>
       ELSE << [order_line_item_id |-> i,
                product_code |-> product_code,
                colour |-> colour,
                system_stock_quantity |-> levels[1].total_quantity,
                verified_quantity |-> Null,
                status |-> "pending"] >>

RECURSIVE NewVerifications(_, _, _)
NewVerifications(cs, its, n) ==
    IF n = 0 THEN <<>>
    ELSE NewVerifications(cs, its, n - 1) \o VerificationFor(cs, its, n)

CreateVerificationsForOrder ==
    /\ ~created
    /\ created' = TRUE
    /\ verifs' = verifs \o NewVerifications(cartons, items, Cardinality(LineItems))
    /\ UNCHANGED <<order, items, cartons, movements, stocktake, sess, writes,
                   labels, summary, poller>>

\* A further call of create_verifications_for_order for the same order.
CreateVerificationsForOrderAgain ==
    /\ created
    /\ Len(verifs) + Cardinality(LineItems) <= MaxVerifications
    /\ verifs' = verifs \o NewVerifications(cartons, items, Cardinality(LineItems))
    /\ UNCHANGED <<created, order, items, cartons, movements, stocktake, sess,
                   writes, labels, summary, poller>>

\* ------------------------------------------------------------ sessions
\* The writes a session has made and not committed: columns of the order
\* row, of the line items, of one verification and of one carton, a carton
\* to insert and the movements to insert.
NoWrites ==
    [status |-> Null, approved_at |-> Null, rejected_reason |-> Null,
     office |-> Null, wo |-> [i \in Items |-> Null], verif |-> Null,
     carton |-> [status |-> Null, quantity |-> Null],
     new_carton |-> Null, moves |-> <<>>]

IdleSession ==
    [kind |-> "none", pc |-> "idle", vid |-> 0, qty |-> 0,
     cachedWo |-> FALSE, approvedAtStart |-> FALSE, ret |-> "none",
     result |-> "none", w |-> NoWrites, olock |-> FALSE, vlock |-> FALSE,
     vmap |-> [i \in Items |-> 0],
     cid |-> 0, seen |-> Null, clock |-> FALSE, auto_adjust |-> FALSE]

Free(s) == sess[s].pc \in {"idle", "done"}

\* Request slots are interchangeable: a new request takes the lowest free
\* one.
Takes(s) == Free(s) /\ \A t \in Sessions : t < s => ~Free(t)

OrderLockFree(s) == \A t \in Sessions \ {s} : ~sess[t].olock
CartonLockFree(s, c) ==
    \A t \in Sessions \ {s} : ~(sess[t].clock /\ sess[t].cid = c)
VerifLockFree(s, v) ==
    \A t \in Sessions \ {s} : ~(sess[t].vlock /\ sess[t].vid = v)

\* What a query of session s returns: the committed row overlaid with the
\* session's own flushed writes.
ViewStatus(s) ==
    IF IsNull(sess[s].w.status) THEN order.status ELSE Val(sess[s].w.status)

ViewVerif(s, v) ==
    IF sess[s].vid = v /\ ~IsNull(sess[s].w.verif)
    THEN [verifs[v] EXCEPT !.status = Val(sess[s].w.verif).status,
                           !.verified_quantity =
                               Val(sess[s].w.verif).verified_quantity]
    ELSE verifs[v]

VerifIds == 1 .. Len(verifs)

\* ------------------------------------------------------------- initial
OrderInit ==
    [status |-> "pending", approved_at |-> Null, rejected_reason |-> Null,
     office_order_file |-> Null]

ItemRow(code, matched, colour, q) ==
    [product_code |-> code, matched_product_code |-> matched,
     colour |-> colour, quantity |-> q, works_order_file |-> Null]

\* A full carton as generate_labels creates it (no parent), in status st.
CartonRow(code, colour, q, st) ==
    [product_code |-> code, colour |-> colour, quantity |-> q, status |-> st,
     box_type |-> "full", parent_stock_item_id |-> Null]

MovementRow(c, type, change, session) ==
    [stock_item_id |-> c, movement_type |-> type, quantity_change |-> change,
     stocktake_session_id |-> session]

\* The movements that brought carton c to the status it starts in: none
\* for pending_scan, its scan-in for in_stock, scan-in and scan-out for
\* picked.
MovementsOf(cs, c) ==
    IF cs[c].status = "pending_scan" THEN <<>>
    ELSE IF cs[c].status = "in_stock"
    THEN << MovementRow(c, "stock_in", cs[c].quantity, Null) >>
    ELSE << MovementRow(c, "stock_in", cs[c].quantity, Null),
            MovementRow(c, "stock_out", 0 - cs[c].quantity, Null) >>

InitialMovements(cs) == [c \in DOMAIN cs |-> MovementsOf(cs, c)]

NoStocktake ==
    [status |-> "none", total_expected |-> 0, total_scanned |-> 0,
     total_discrepancies |-> 0, completed_at |-> Null, scans |-> <<>>]

InitRows ==
    /\ created = FALSE
    /\ order = OrderInit
    /\ verifs = <<>>
    /\ movements = InitialMovements(cartons)
    /\ stocktake = NoStocktake
    /\ sess = [s \in Sessions |-> IdleSession]
    /\ writes = [office |-> 0, wo |-> [i \in Items |-> 0],
                 failure |-> "none"]

\* No barcode identifier is stored and nobody is allocating one.
NoLabels ==
    [stored |-> {}, returned |-> <<>>,
     call |-> [s \in Sessions |->
                 [pc |-> "idle", ids |-> <<>>, result |-> "none"]]]

\* The polling tasks that asyncio.create_task can still create.
Tasks == 1 .. MaxTasks

\* The poller as GmailPoller() constructs it: no task, the stop event
\* clear, the EmailMonitorStatus row not running, no request in flight.
NoPoller ==
    [task |-> Null, stop_event |-> FALSE,
     tasks |-> [t \in Tasks |-> "none"],
     status_is_running |-> FALSE,
     call |-> [s \in Sessions |->
                 [pc |-> "idle", kind |-> "none", success |-> FALSE,
                  awaits |-> 0]]]

\* No summary row has been computed.
NoSummary ==
    [total_units |-> 0, red |-> Null, amber |-> Null,
     threshold_status |-> Null, pc |-> "idle"]

InitRest ==
    /\ InitRows
    /\ labels = NoLabels
    /\ summary = NoSummary
    /\ poller = NoPoller

\* An extracted order of two line items (product P1 matched in the
\* catalogue, product P2 as extracted) and one carton of each product,
\* in stock or already picked.
Init ==
    /\ \/ \E q1 \in 0 .. MaxQty, q2 \in 0 .. MaxQty :
            items = [i \in Items |->
                       IF i = 1 THEN ItemRow("p1-raw", "P1", "Black", q1)
                       ELSE ItemRow("P2", "", "Black", q2)]
       \/ items = [i \in {} |-> ItemRow("", "", "", 0)]
    /\ \E st1 \in {"in_stock", "picked"}, st2 \in {"in_stock", "picked"} :
         cartons = [c \in Cartons |->
                    IF c = 1 THEN CartonRow("P1", "Black", 1, st1)
                    ELSE CartonRow("P2", "Black", 2, st2)]
    /\ InitRest

\* ------------------------------------------------------------ requests
StartSession(kind, pc, v, q) ==
    [IdleSession EXCEPT !.kind = kind, !.pc = pc, !.vid = v, !.qty = q]

\* A request that ends with an error before it has written anything; what
\* says which error it is (the detail of the HTTPException, the message of
\* the ValueError).
RefusedWith(kind, what) ==
    [IdleSession EXCEPT !.kind = kind, !.pc = "done", !.result = what]

Refused(kind) == RefusedWith(kind, "rejected")

AnyWorksOrderFile == \E i \in LineItems : ~IsNull(items[i].works_order_file)

\* Variant without the test for line items.
ApproveBeginNoLineItemTest(s) ==
    /\ created /\ Takes(s)
    /\ sess' = [sess EXCEPT ![s] =
          IF order.status # "pending" THEN Refused("approve")
          ELSE [StartSession("approve", "flush", 0, 0)
                  EXCEPT !.cachedWo = AnyWorksOrderFile]]
    /\ UNCHANGED <<created, order, items, verifs, cartons, movements, stocktake, writes,
                   labels, summary, poller>>

\* POST /api/orders/{id}/approve, up to the status check: the order and
\* its line items are loaded into the session; _require_pending refuses an
\* order that is not pending, and an order without line items is refused.
ApproveBegin(s) ==
    /\ created /\ Takes(s)
    /\ sess' = [sess EXCEPT ![s] =
          IF order.status # "pending" THEN Refused("approve")
          ELSE IF LineItems = {}
          THEN RefusedWith("approve", "no_line_items")
          ELSE [StartSession("approve", "flush", 0, 0)
                  EXCEPT !.cachedWo = AnyWorksOrderFile]]
    /\ UNCHANGED <<created, order, items, verifs, cartons, movements, stocktake, writes,
                   labels, summary, poller>>

\* order.status = "approved"; db.flush(): the UPDATE takes the order row.
ApproveFlush(s) ==
    /\ sess[s].kind = "approve" /\ sess[s].pc = "flush"
    /\ OrderLockFree(s)
    /\ sess' = [sess EXCEPT ![s].w.status = Some("approved"),
                            ![s].w.approved_at = Some("now"),
                            ![s].olock = TRUE,
                            ![s].pc = "verify"]
    /\ UNCHANGED <<created, order, items, verifs, cartons, movements, stocktake, writes,
                   labels, summary, poller>>

PendingIn(s) == {v \in VerifIds : ViewVerif(s, v).status = "pending"}

\* get_verification_status_for_order and the branch on it.  With no
\* verification at all generate_all_forms writes the office order and one
\* works order per line item at the ordered quantity and commits; the
\* status works_order_generated is set after that commit.
ApproveVerify(s) ==
    /\ sess[s].kind = "approve" /\ sess[s].pc = "verify"
    /\ IF Len(verifs) = 0
       THEN /\ order' = [order EXCEPT
                 !.status = Val(sess[s].w.status),
                 !.approved_at = sess[s].w.approved_at,
                 !.office_order_file = Some(generate_office_order(items))]
            /\ items' = [i \in LineItems |->
                 [items[i] EXCEPT !.works_order_file =
                     Some(generate_works_order(items[i], Null, Null))]]
            /\ writes' = [writes EXCEPT
                 !.office = @ + 1,
                 !.wo = [i \in Items |->
                           @[i] + (IF i \in LineItems THEN 1 ELSE 0)]]
            /\ sess' = [sess EXCEPT
                 ![s].w = [NoWrites EXCEPT
                             !.status = Some("works_order_generated")],
                 ![s].olock = FALSE,
                 ![s].ret = "true",
                 ![s].pc = "final"]
       ELSE /\ sess' = [sess EXCEPT ![s].pc =
                 IF PendingIn(s) = {} THEN "check" ELSE "commit"]
            /\ UNCHANGED <<order, items, writes>>
    /\ UNCHANGED <<created, verifs, cartons, movements, stocktake, labels, summary, poller>>

\* POST /api/stock-verifications/{id}/confirm, up to the status check.
ConfirmBegin(s, v, q) ==
    /\ created /\ Takes(s)
    /\ sess' = [sess EXCEPT ![s] =
          IF v \notin VerifIds
          THEN [RefusedWith("confirm", "not_found") EXCEPT !.vid = v]
          ELSE IF verifs[v].status # "pending"
          THEN [Refused("confirm") EXCEPT !.vid = v]
          ELSE [StartSession("confirm", "flush", v, q)
                  EXCEPT !.approvedAtStart = (order.status = "approved")]]
    /\ UNCHANGED <<created, order, items, verifs, cartons, movements, stocktake, writes,
                   labels, summary, poller>>

\* verified_quantity, status = "confirmed"; db.flush(): the UPDATE takes
\* the verification row.
ConfirmFlush(s) ==
    /\ sess[s].kind = "confirm" /\ sess[s].pc = "flush"
    /\ VerifLockFree(s, sess[s].vid)
    /\ sess' = [sess EXCEPT
          ![s].w.verif = Some([status |-> "confirmed", setQty |-> TRUE,
                               verified_quantity |-> Some(sess[s].qty)]),
          ![s].vlock = TRUE,
          ![s].pc = "check"]
    /\ UNCHANGED <<created, order, items, verifs, cartons, movements, stocktake, writes,
                   labels, summary, poller>>

\* Variant without the status test.
ExpireBeginNoStatusTest(s, v) ==
    /\ created /\ Takes(s)
    /\ sess' = [sess EXCEPT ![s] =
          IF v \notin VerifIds
          THEN [RefusedWith("expire", "not_found") EXCEPT !.vid = v]
          ELSE StartSession("expire", "flush", v, 0)]
    /\ UNCHANGED <<created, order, items, verifs, cartons, movements, stocktake, writes,
                   labels, summary, poller>>

\* POST /api/stock-verifications/{id}/expire, up to the status check.
ExpireBegin(s, v) ==
    /\ created /\ Takes(s)
    /\ sess' = [sess EXCEPT ![s] =
          IF v \notin VerifIds
          THEN [RefusedWith("expire", "not_found") EXCEPT !.vid = v]
          ELSE IF verifs[v].status # "pending"
          THEN [Refused("expire") EXCEPT !.vid = v]
          ELSE StartSession("expire", "flush", v, 0)]
    /\ UNCHANGED <<created, order, items, verifs, cartons, movements, stocktake, writes,
                   labels, summary, poller>>

\* status = "expired"; db.flush().  expire_verification ends here: it does
\* not call the completion check.
ExpireFlush(s) ==
    /\ sess[s].kind = "expire" /\ sess[s].pc = "flush"
    /\ VerifLockFree(s, sess[s].vid)
    /\ sess' = [sess EXCEPT
          ![s].w.verif = Some([status |-> "expired", setQty |-> FALSE,
                               verified_quantity |-> Null]),
          ![s].vlock = TRUE,
          ![s].pc = "commit"]
    /\ UNCHANGED <<created, order, items, verifs, cartons, movements, stocktake, writes,
                   labels, summary, poller>>

\* POST /api/orders/{id}/reject: the new status reaches the database with
\* db.commit().
RejectBegin(s) ==
    /\ created /\ Takes(s)
    /\ sess' = [sess EXCEPT ![s] =
          IF order.status # "pending" THEN Refused("reject")
          ELSE [StartSession("reject", "commit", 0, 0)
                  EXCEPT !.w.status = Some("rejected"),
                         !.w.rejected_reason = Some("reason")]]
    /\ UNCHANGED <<created, order, items, verifs, cartons, movements, stocktake, writes,
                   labels, summary, poller>>

\* check_and_generate_works_orders called on its own, in a session of its
\* own that commits afterwards.
CheckBegin(s) ==
    /\ created /\ Takes(s)
    /\ sess' = [sess EXCEPT ![s] = StartSession("check", "check", 0, 0)]
    /\ UNCHANGED <<created, order, items, verifs, cartons, movements, stocktake, writes,
                   labels, summary, poller>>

\* -------------------------------------- check_and_generate_works_orders
\* verification_map of _generate_adjusted_works_orders: line item ->
\* verified_quantity of its confirmed verification (a later row of the same
\* line item overwrites an earlier one); 0 where the map has no entry.
RECURSIVE VerifiedQtyOf(_, _, _)
VerifiedQtyOf(s, i, n) ==
    IF n = 0 THEN 0
    ELSE LET v == ViewVerif(s, n)
         IN IF /\ v.order_line_item_id = i
               /\ v.status = "confirmed"
               /\ ~IsNull(v.verified_quantity)
            THEN Val(v.verified_quantity)
            ELSE VerifiedQtyOf(s, i, n - 1)

verification_map(s) == [i \in Items |-> VerifiedQtyOf(s, i, Len(verifs))]

\* The rows the check works on.  approve_order calls it with the order and
\* line items its session loaded before the status check and with the
\* verifications it found none pending among; the other callers load them
\* in the call.
SeenStatus(s) == ViewStatus(s)
SeenWorksOrderFile(s) ==
    IF sess[s].kind = "approve" THEN sess[s].cachedWo ELSE AnyWorksOrderFile
\* Variant that never sees a pending verification.
SeenPendingNever(s) == FALSE

SeenPending(s) ==
    IF sess[s].kind = "approve" THEN FALSE ELSE PendingIn(s) # {}

\* Variants of the guards with one of them lost or narrowed.
MayGenerateNoStatusGuard(s) ==
    /\ ~SeenWorksOrderFile(s)
    /\ ~SeenPending(s)

MayGenerateVerifiedOnly(s) ==
    /\ SeenStatus(s) = "verified"
    /\ ~SeenWorksOrderFile(s)
    /\ ~SeenPending(s)

\* The three guards, in the order of the code.
MayGenerate(s) ==
    /\ SeenStatus(s) \in {"approved", "verified"}
    /\ ~SeenWorksOrderFile(s)
    /\ ~SeenPending(s)

CheckAndGenerate(s) ==
    /\ sess[s].pc = "check"
    /\ sess' = [sess EXCEPT
          ![s].ret = IF MayGenerate(s) THEN "true" ELSE "false",
          ![s].vmap = IF MayGenerate(s) THEN verification_map(s) ELSE @,
          ![s].pc = IF MayGenerate(s) THEN "generate" ELSE "commit"]
    /\ UNCHANGED <<created, order, items, verifs, cartons, movements, stocktake, writes,
                   labels, summary, poller>>

\* Variant without the floor at 0.
calculate_adjusted_quantity_no_floor(ordered_qty, verified_qty) ==
    ordered_qty - verified_qty

calculate_adjusted_quantity(ordered_qty, verified_qty) ==
    IF ordered_qty - verified_qty > 0 THEN ordered_qty - verified_qty ELSE 0

\* Variant that writes a works order for every line item.
AdjustedWorksOrderNoSkip(item, verified_qty) ==
    LET adjusted_qty == calculate_adjusted_quantity(item.quantity, verified_qty)
    IN Some(generate_works_order(item, Some(adjusted_qty), Some(verified_qty)))

\* One turn of the loop over the line items: the works order written for a
\* line item, none when its adjusted quantity is 0.
AdjustedWorksOrder(item, verified_qty) ==
    LET adjusted_qty == calculate_adjusted_quantity(item.quantity, verified_qty)
    IN IF adjusted_qty = 0 THEN Null
       ELSE Some(generate_works_order(item, Some(adjusted_qty),
                                      Some(verified_qty)))

\* _generate_adjusted_works_orders: status verified (flushed, so the
\* UPDATE takes the order row), the office order, a works order for every
\* line item whose adjusted quantity is not 0, status
\* works_order_generated.
GenerateAdjustedWorksOrders(s) ==
    /\ sess[s].pc = "generate"
    /\ OrderLockFree(s)
    /\ sess' = [sess EXCEPT
          ![s].olock = TRUE,
          ![s].w.status = Some("works_order_generated"),
          ![s].w.office = Some(generate_office_order(items)),
          ![s].w.wo = [i \in Items |->
                          IF i \in LineItems
                          THEN AdjustedWorksOrder(items[i], sess[s].vmap[i])
                          ELSE Null],
          ![s].vmap = [i \in Items |-> 0],
          ![s].pc = "commit"]
    /\ UNCHANGED <<created, order, items, verifs, cartons, movements, stocktake, writes,
                   labels, summary, poller>>

\* The line items whose works order _generate_adjusted_works_orders has
\* written when it reaches line item k (k = 0: the office order).
WrittenBefore(s, k) ==
    {i \in LineItems :
        /\ i < k
        /\ ~IsNull(AdjustedWorksOrder(items[i], sess[s].vmap[i]))}

\* generate_office_order (k = 0) or generate_works_order of line item k
\* raises: status verified has been flushed, the documents before k are set
\* on the loaded rows.  No caller catches the exception; get_db closes the
\* session, which rolls the transaction back.
GenerationFails(s, k) ==
    /\ sess[s].pc = "generate"
    /\ OrderLockFree(s)
    /\ k \in {0} \cup {i \in LineItems :
                  ~IsNull(AdjustedWorksOrder(items[i], sess[s].vmap[i]))}
    /\ sess' = [sess EXCEPT ![s] =
                   [RefusedWith(sess[s].kind, "error") EXCEPT
                       !.vid = sess[s].vid]]
    /\ writes' = [writes EXCEPT !.failure =
                     IF WrittenBefore(s, k) # {} THEN "partial" ELSE "early"]
    /\ UNCHANGED <<created, order, items, verifs, cartons, movements,
                   stocktake, labels, summary, poller>>

\* ------------------------------------------------------ carton requests
\* A carton's barcode_id is unique; carton c carries barcode c, and 0 is a
\* barcode (or id) no carton carries.
Barcodes == 0 .. Len(cartons)

OthersUnchanged ==
    UNCHANGED <<created, order, items, verifs, cartons, movements, stocktake,
                writes, labels, summary, poller>>

CartonSession(kind, c, q) ==
    [StartSession(kind, "flush", 0, q) EXCEPT !.cid = c,
                                             !.seen = Some(cartons[c])]

\* The answer to a refused carton request; it names the barcode (or id)
\* and the quantity of the request.
RefusedCarton(kind, what, b, q) ==
    [RefusedWith(kind, what) EXCEPT !.cid = b, !.qty = q]

\* Variant that scans a picked carton in again.
ScanInBeginAcceptsPicked(s, b) ==
    /\ Takes(s)
    /\ sess' = [sess EXCEPT ![s] =
          IF b \notin DOMAIN cartons
          THEN RefusedCarton("scan_in", "not_recognised", b, 0)
          ELSE IF cartons[b].status = "in_stock"
          THEN RefusedCarton("scan_in", "already_scanned_in", b, 0)
          ELSE IF cartons[b].status \in {"scrapped", "consumed"}
          THEN RefusedCarton("scan_in", "cannot_scan_in", b, 0)
          ELSE CartonSession("scan_in", b, 0)]
    /\ OthersUnchanged

\* POST /api/stock/scan-in, the lookup and the status tests of scan_in.
ScanInBegin(s, b) ==
    /\ Takes(s)
    /\ sess' = [sess EXCEPT ![s] =
          IF b \notin DOMAIN cartons
          THEN RefusedCarton("scan_in", "not_recognised", b, 0)
          ELSE IF cartons[b].status = "in_stock"
          THEN RefusedCarton("scan_in", "already_scanned_in", b, 0)
          ELSE IF cartons[b].status \in {"picked", "scrapped", "consumed"}
          THEN RefusedCarton("scan_in", "cannot_scan_in", b, 0)
          ELSE IF cartons[b].status # "pending_scan"
          THEN RefusedCarton("scan_in", "unexpected_status", b, 0)
          ELSE CartonSession("scan_in", b, 0)]
    /\ OthersUnchanged

ScanInFlushNegativeMovement(s) ==
    /\ sess[s].kind = "scan_in" /\ sess[s].pc = "flush"
    /\ CartonLockFree(s, sess[s].cid)
    /\ sess' = [sess EXCEPT
          ![s].w.carton.status = Some("in_stock"),
          ![s].w.moves = << MovementRow(sess[s].cid, "stock_in",
                                0 - Val(sess[s].seen).quantity, Null) >>,
          ![s].clock = TRUE,
          ![s].pc = "commit"]
    /\ OthersUnchanged

\* status in_stock, the stock_in movement of +quantity; db.flush().
ScanInFlush(s) ==
    /\ sess[s].kind = "scan_in" /\ sess[s].pc = "flush"
    /\ CartonLockFree(s, sess[s].cid)
    /\ sess' = [sess EXCEPT
          ![s].w.carton.status = Some("in_stock"),
          ![s].w.moves = << MovementRow(sess[s].cid, "stock_in",
                                        Val(sess[s].seen).quantity, Null) >>,
          ![s].clock = TRUE,
          ![s].pc = "commit"]
    /\ OthersUnchanged

\* POST /api/stock/scan-out, the lookup and the status tests of scan_out.
ScanOutBegin(s, b) ==
    /\ Takes(s)
    /\ sess' = [sess EXCEPT ![s] =
          IF b \notin DOMAIN cartons
          THEN RefusedCarton("scan_out", "not_recognised", b, 0)
          ELSE IF cartons[b].status = "pending_scan"
          THEN RefusedCarton("scan_out", "not_yet_scanned_in", b, 0)
          ELSE IF cartons[b].status = "picked"
          THEN RefusedCarton("scan_out", "already_scanned_out", b, 0)
          ELSE IF cartons[b].status \in {"scrapped", "consumed"}
          THEN RefusedCarton("scan_out", "cannot_scan_out", b, 0)
          ELSE IF cartons[b].status # "in_stock"
          THEN RefusedCarton("scan_out", "unexpected_status", b, 0)
          ELSE CartonSession("scan_out", b, 0)]
    /\ OthersUnchanged

\* Variant that writes no movement.
ScanOutFlushNoMovement(s) ==
    /\ sess[s].kind = "scan_out" /\ sess[s].pc = "flush"
    /\ CartonLockFree(s, sess[s].cid)
    /\ sess' = [sess EXCEPT
          ![s].w.carton.status = Some("picked"),
          ![s].clock = TRUE,
          ![s].pc = "commit"]
    /\ OthersUnchanged

\* status picked, the stock_out movement of -quantity; db.flush().
ScanOutFlush(s) ==
    /\ sess[s].kind = "scan_out" /\ sess[s].pc = "flush"
    /\ CartonLockFree(s, sess[s].cid)
    /\ sess' = [sess EXCEPT
          ![s].w.carton.status = Some("picked"),
          ![s].w.moves = << MovementRow(sess[s].cid, "stock_out",
                                 0 - Val(sess[s].seen).quantity, Null) >>,
          ![s].clock = TRUE,
          ![s].pc = "commit"]
    /\ OthersUnchanged

\* Variant that lets the whole carton be taken.
PartialRepackBeginAcceptsAll(s, b, units_taken) ==
    /\ Takes(s)
    /\ sess' = [sess EXCEPT ![s] =
          IF b \notin DOMAIN cartons
          THEN RefusedCarton("partial_repack", "not_recognised", b,
                             units_taken)
          ELSE IF cartons[b].status # "in_stock"
          THEN RefusedCarton("partial_repack", "cannot_repack", b,
                             units_taken)
          ELSE IF units_taken <= 0
          THEN RefusedCarton("partial_repack", "units_not_positive", b,
                             units_taken)
          ELSE IF units_taken > cartons[b].quantity
          THEN RefusedCarton("partial_repack", "units_not_below_quantity", b,
                             units_taken)
          ELSE CartonSession("partial_repack", b, units_taken)]
    /\ OthersUnchanged

\* POST /api/stock/partial-repack, the lookup and the tests of
\* partial_repack.
PartialRepackBegin(s, b, units_taken) ==
    /\ Takes(s)
    /\ sess' = [sess EXCEPT ![s] =
          IF b \notin DOMAIN cartons
          THEN RefusedCarton("partial_repack", "not_recognised", b,
                             units_taken)
          ELSE IF cartons[b].status # "in_stock"
          THEN RefusedCarton("partial_repack", "cannot_repack", b,
                             units_taken)
          ELSE IF units_taken <= 0
          THEN RefusedCarton("partial_repack", "units_not_positive", b,
                             units_taken)
          ELSE IF units_taken >= cartons[b].quantity
          THEN RefusedCarton("partial_repack", "units_not_below_quantity", b,
                             units_taken)
          ELSE CartonSession("partial_repack", b, units_taken)]
    /\ OthersUnchanged

\* Variant that leaves the remainder carton without its parent.
PartialItemNoParent(original, c, remaining) ==
    [product_code |-> original.product_code, colour |-> original.colour,
     quantity |-> remaining, status |-> "in_stock",
     box_type |-> "partial", parent_stock_item_id |-> Null]

\* The carton partial_repack creates for the remainder.
PartialItem(original, c, remaining) ==
    [product_code |-> original.product_code, colour |-> original.colour,
     quantity |-> remaining, status |-> "in_stock",
     box_type |-> "partial", parent_stock_item_id |-> Some(c)]

\* Variant that leaves the original carton in stock.
PartialRepackFlushKeepsOriginal(s) ==
    /\ sess[s].kind = "partial_repack" /\ sess[s].pc = "flush"
    /\ CartonLockFree(s, sess[s].cid)
    /\ LET original == Val(sess[s].seen)
           remaining == original.quantity - sess[s].qty
       IN sess' = [sess EXCEPT
            ![s].w.new_carton =
                Some(PartialItem(original, sess[s].cid, remaining)),
            ![s].w.moves =
                << MovementRow(sess[s].cid, "partial_repack",
                               0 - original.quantity, Null),
                   MovementRow(0, "stock_in", remaining, Null) >>,
            ![s].clock = TRUE,
            ![s].pc = "commit"]
    /\ OthersUnchanged

\* The original consumed with its partial_repack movement of -quantity, the
\* new carton and its stock_in movement of +remaining (stock_item_id 0
\* stands for the id the insert gives the new carton); both flushes.
PartialRepackFlush(s) ==
    /\ sess[s].kind = "partial_repack" /\ sess[s].pc = "flush"
    /\ CartonLockFree(s, sess[s].cid)
    /\ LET original == Val(sess[s].seen)
           remaining == original.quantity - sess[s].qty
       IN sess' = [sess EXCEPT
            ![s].w.carton.status = Some("consumed"),
            ![s].w.new_carton =
                Some(PartialItem(original, sess[s].cid, remaining)),
            ![s].w.moves =
                << MovementRow(sess[s].cid, "partial_repack",
                               0 - original.quantity, Null),
                   MovementRow(0, "stock_in", remaining, Null) >>,
            ![s].clock = TRUE,
            ![s].pc = "commit"]
    /\ OthersUnchanged

\* The number of manual adjustments made so far.
Adjustments ==
    Cardinality(UNION {
        {<<c, k>> : k \in {j \in DOMAIN movements[c] :
            /\ movements[c][j].movement_type = "adjustment"
            /\ IsNull(movements[c][j].stocktake_session_id)}} :
        c \in DOMAIN movements})

\* Variant without the test of the new quantity.
AdjustmentBeginNoFloor(s, c, quantity_change) ==
    /\ Takes(s)
    /\ Adjustments < MaxAdjustments
    /\ sess' = [sess EXCEPT ![s] =
          IF c \notin DOMAIN cartons
          THEN RefusedCarton("adjustment", "not_found", c,
                             quantity_change)
          ELSE IF cartons[c].status # "in_stock"
          THEN RefusedCarton("adjustment", "cannot_adjust", c,
                             quantity_change)
          ELSE CartonSession("adjustment", c, quantity_change)]
    /\ OthersUnchanged

\* POST /api/stock/adjustment, the lookup by id and the tests of adjustment.
AdjustmentBegin(s, c, quantity_change) ==
    /\ Takes(s)
    /\ Adjustments < MaxAdjustments
    /\ sess' = [sess EXCEPT ![s] =
          IF c \notin DOMAIN cartons
          THEN RefusedCarton("adjustment", "not_found", c,
                             quantity_change)
          ELSE IF cartons[c].status # "in_stock"
          THEN RefusedCarton("adjustment", "cannot_adjust", c,
                             quantity_change)
          ELSE IF cartons[c].quantity + quantity_change < 0
          THEN RefusedCarton("adjustment", "negative_quantity", c,
                             quantity_change)
          ELSE CartonSession("adjustment", c, quantity_change)]
    /\ OthersUnchanged

\* Variant that never scraps the carton.
AdjustmentFlushNeverScraps(s) ==
    /\ sess[s].kind = "adjustment" /\ sess[s].pc = "flush"
    /\ LET new_quantity == Val(sess[s].seen).quantity + sess[s].qty
           updates == sess[s].qty # 0
       IN /\ updates => CartonLockFree(s, sess[s].cid)
          /\ sess' = [sess EXCEPT
               ![s].w.carton.quantity =
                   IF sess[s].qty # 0 THEN Some(new_quantity) ELSE Null,
               ![s].w.moves = << MovementRow(sess[s].cid, "adjustment",
                                             sess[s].qty, Null) >>,
               ![s].clock = updates,
               ![s].pc = "commit"]
    /\ OthersUnchanged

\* quantity = new_quantity, status scrapped when it is 0, the adjustment
\* movement; db.flush().  The UPDATE names the columns whose value has
\* changed on the loaded object; with none changed there is no UPDATE.
AdjustmentFlush(s) ==
    /\ sess[s].kind = "adjustment" /\ sess[s].pc = "flush"
    /\ LET new_quantity == Val(sess[s].seen).quantity + sess[s].qty
           updates == sess[s].qty # 0 \/ new_quantity = 0
       IN /\ updates => CartonLockFree(s, sess[s].cid)
          /\ sess' = [sess EXCEPT
               ![s].w.carton.quantity =
                   IF sess[s].qty # 0 THEN Some(new_quantity) ELSE Null,
               ![s].w.carton.status =
                   IF new_quantity = 0 THEN Some("scrapped") ELSE Null,
               ![s].w.moves = << MovementRow(sess[s].cid, "adjustment",
                                             sess[s].qty, Null) >>,
               ![s].clock = updates,
               ![s].pc = "commit"]
    /\ OthersUnchanged

\* --------------------------------------------------- stocktake requests
\* One stocktake session; each request runs from its first query to its
\* db.commit() in one step and leaves its outcome in its request slot.
SessionError ==
    IF stocktake.status = "none" THEN "not_found"
    ELSE IF stocktake.status # "in_progress" THEN "not_in_progress"
    ELSE "ok"

InStock == {c \in DOMAIN cartons : cartons[c].status = "in_stock"}

\* POST /api/stocktake/sessions: total_expected is the number of in_stock
\* cartons.
StartStocktake(s) ==
    /\ Takes(s)
    /\ stocktake.status = "none"
    /\ stocktake' = [NoStocktake EXCEPT
                        !.status = "in_progress",
                        !.total_expected = Cardinality(InStock)]
    /\ sess' = [sess EXCEPT ![s] = RefusedWith("start_session", "ok")]
    /\ UNCHANGED <<created, order, items, verifs, cartons, movements, writes,
                   labels, summary, poller>>

\* Variant that looks for the carton before it looks for an earlier scan.
ScanResultCartonFirst(b) ==
    IF b \notin DOMAIN cartons THEN "not_in_system"
    ELSE IF \E k \in DOMAIN stocktake.scans :
               stocktake.scans[k].barcode_scanned = b
    THEN "already_scanned"
    ELSE IF cartons[b].status # "in_stock" THEN "wrong_status"
    ELSE "found"

\* The classification of process_stocktake_scan.
ScanResult(b) ==
    IF \E k \in DOMAIN stocktake.scans :
          stocktake.scans[k].barcode_scanned = b
    THEN "already_scanned"
    ELSE IF b \notin DOMAIN cartons THEN "not_in_system"
    ELSE IF cartons[b].status # "in_stock" THEN "wrong_status"
    ELSE "found"

StocktakeScanNoDuplicateTest(s, b) ==
    /\ Takes(s)
    /\ Len(stocktake.scans) < MaxScans
    /\ LET result == IF b \notin DOMAIN cartons THEN "not_in_system"
                     ELSE IF cartons[b].status # "in_stock"
                     THEN "wrong_status"
                     ELSE "found"
       IN stocktake' =
          IF SessionError # "ok" THEN stocktake
          ELSE [stocktake EXCEPT
                  !.scans = Append(@,
                      [barcode_scanned |-> b,
                       stock_item_id |-> IF b \in DOMAIN cartons
                                         THEN Some(b) ELSE Null,
                       stock_item_status |->
                           IF b \in DOMAIN cartons
                           THEN Some(cartons[b].status) ELSE Null,
                       scan_result |-> result]),
                  !.total_scanned =
                      IF result = "found" THEN @ + 1 ELSE @]
    /\ sess' = [sess EXCEPT ![s] =
                   RefusedCarton("process_stocktake_scan", SessionError,
                                 b, 0)]
    /\ UNCHANGED <<created, order, items, verifs, cartons, movements, writes,
                   labels, summary, poller>>

\* POST /api/stocktake/sessions/{id}/scan. A scan row is kept with the
\* status of the carton the request read, which the response returns as
\* stock_item.
StocktakeScan(s, b) ==
    /\ Takes(s)
    /\ Len(stocktake.scans) < MaxScans
    /\ stocktake' =
          IF SessionError # "ok" THEN stocktake
          ELSE [stocktake EXCEPT
                  !.scans = Append(@,
                      [barcode_scanned |-> b,
                       stock_item_id |-> IF b \in DOMAIN cartons
                                         THEN Some(b) ELSE Null,
                       stock_item_status |->
                           IF b \in DOMAIN cartons
                           THEN Some(cartons[b].status) ELSE Null,
                       scan_result |-> ScanResult(b)]),
                  !.total_scanned =
                      IF ScanResult(b) = "found" THEN @ + 1 ELSE @]
    /\ sess' = [sess EXCEPT ![s] =
                   RefusedCarton("process_stocktake_scan", SessionError,
                                 b, 0)]
    /\ UNCHANGED <<created, order, items, verifs, cartons, movements, writes,
                   labels, summary, poller>>

\* Variant that takes every scanned barcode as found.
found_barcodes_any_result ==
    {stocktake.scans[k].barcode_scanned : k \in DOMAIN stocktake.scans}

found_barcodes ==
    {stocktake.scans[k].barcode_scanned :
        k \in {j \in DOMAIN stocktake.scans :
                  stocktake.scans[j].scan_result = "found"}}

\* Variant that takes every in_stock carton as missing.
missing_items_all_in_stock == InStock

missing_items == {c \in InStock : c \notin found_barcodes}

\* Variant that counts the not_in_system scans only.
unexpected_count_not_in_system ==
    Cardinality({k \in DOMAIN stocktake.scans :
        stocktake.scans[k].scan_result = "not_in_system"})

unexpected_count ==
    Cardinality({k \in DOMAIN stocktake.scans :
        stocktake.scans[k].scan_result \in {"not_in_system", "wrong_status"}})

\* POST /api/stocktake/sessions/{id}/complete
CompleteStocktake(s, auto_adjust) ==
    /\ Takes(s)
    /\ sess' = [sess EXCEPT ![s] =
                   [RefusedWith("complete_session", SessionError)
                       EXCEPT !.auto_adjust = auto_adjust]]
    /\ IF SessionError # "ok"
       THEN UNCHANGED <<cartons, movements, stocktake>>
       ELSE /\ stocktake' = [stocktake EXCEPT
                 !.status = "completed",
                 !.completed_at = Some("now"),
                 !.total_discrepancies =
                     Cardinality(missing_items) + unexpected_count]
            /\ IF auto_adjust
               THEN /\ cartons' = [c \in DOMAIN cartons |->
                         IF c \in missing_items
                         THEN [cartons[c] EXCEPT !.status = "scrapped"]
                         ELSE cartons[c]]
                    /\ movements' = [c \in DOMAIN movements |->
                         IF c \in missing_items
                         THEN Append(movements[c],
                                 MovementRow(c, "adjustment",
                                             0 - cartons[c].quantity,
                                             Some("session")))
                         ELSE movements[c]]
               ELSE UNCHANGED <<cartons, movements>>
    /\ UNCHANGED <<created, order, items, verifs, writes, labels, summary, poller>>

\* Variant that cancels a session in any status.
CancelStocktakeNoStatusTest(s) ==
    /\ Takes(s)
    /\ sess' = [sess EXCEPT ![s] =
          RefusedWith("cancel_session",
              IF stocktake.status = "none" THEN "not_found" ELSE "ok")]
    /\ stocktake' = IF stocktake.status = "none" THEN stocktake
                    ELSE [stocktake EXCEPT !.status = "cancelled",
                                           !.completed_at = Some("now")]
    /\ UNCHANGED <<created, order, items, verifs, cartons, movements, writes,
                   labels, summary, poller>>

\* POST /api/stocktake/sessions/{id}/cancel
CancelStocktake(s) ==
    /\ Takes(s)
    /\ sess' = [sess EXCEPT ![s] =
                   RefusedWith("cancel_session", SessionError)]
    /\ stocktake' = IF SessionError # "ok" THEN stocktake
                    ELSE [stocktake EXCEPT !.status = "cancelled",
                                           !.completed_at = Some("now")]
    /\ UNCHANGED <<created, order, items, verifs, cartons, movements, writes,
                   labels, summary, poller>>

\* ---------------------------------------------------------- db.commit()
\* The quantity on hand of a product and colour.
OnHand(cs, product_code, colour) ==
    LET levels == get_stock_levels(cs, product_code, colour)
    IN IF levels = <<>> THEN 0 ELSE levels[1].total_quantity

\* Variant that brings the snapshot up to date with the stock on hand.
UpdateVerificationAndSnapshot(row, wv) ==
    [row EXCEPT !.status = wv.status,
                !.verified_quantity =
                    IF wv.setQty THEN wv.verified_quantity ELSE @,
                !.system_stock_quantity =
                    OnHand(cartons, row.product_code, row.colour)]

\* The UPDATE of a verification row: the columns confirm_verification or
\* expire_verification has set.
UpdateVerification(row, wv) ==
    [row EXCEPT !.status = wv.status,
                !.verified_quantity =
                    IF wv.setQty THEN wv.verified_quantity ELSE @]

\* The session's writes become the committed rows, column by column, and
\* its row locks are released.  A write not flushed before (the status of
\* reject_order, the final status of the no-verification path) is flushed
\* by the commit and waits for the order row like any UPDATE.
Commit(s) ==
    /\ sess[s].pc \in {"commit", "final"}
    /\ LET w == sess[s].w IN
       /\ (~IsNull(w.status) /\ ~sess[s].olock) => OrderLockFree(s)
       /\ order' = [order EXCEPT
             !.status = IF IsNull(w.status) THEN @ ELSE Val(w.status),
             !.approved_at = IF IsNull(w.approved_at) THEN @
                             ELSE w.approved_at,
             !.rejected_reason = IF IsNull(w.rejected_reason) THEN @
                                 ELSE w.rejected_reason,
             !.office_order_file = IF IsNull(w.office) THEN @ ELSE w.office]
       /\ items' = [i \in LineItems |->
             IF IsNull(w.wo[i]) THEN items[i]
             ELSE [items[i] EXCEPT !.works_order_file = w.wo[i]]]
       /\ verifs' = IF IsNull(w.verif) THEN verifs
                    ELSE [verifs EXCEPT ![sess[s].vid] =
                            UpdateVerification(@, Val(w.verif))]
       /\ writes' = [writes EXCEPT
             !.office = @ + (IF IsNull(w.office) THEN 0 ELSE 1),
             !.wo = [i \in Items |->
                        @[i] + (IF IsNull(w.wo[i]) THEN 0 ELSE 1)]]
       /\ cartons' =
             LET c == sess[s].cid
                 updated ==
                    IF c = 0 THEN cartons
                    ELSE [cartons EXCEPT
                       ![c].status = IF IsNull(w.carton.status) THEN @
                                     ELSE Val(w.carton.status),
                       ![c].quantity = IF IsNull(w.carton.quantity) THEN @
                                       ELSE Val(w.carton.quantity)]
             IN IF IsNull(w.new_carton) THEN updated
                ELSE Append(updated, Val(w.new_carton))
       /\ movements' =
             LET inserted == [k \in 1 .. Len(w.moves) |->
                    [w.moves[k] EXCEPT !.stock_item_id =
                        IF @ = 0 THEN Len(cartons) + 1 ELSE @]]
                 grown == IF IsNull(w.new_carton) THEN movements
                          ELSE Append(movements, <<>>)
                 Of(c) == {k \in 1 .. Len(inserted) :
                              inserted[k].stock_item_id = c}
             IN [c \in DOMAIN grown |->
                   IF Of(c) = {} THEN grown[c]
                   ELSE Append(grown[c], inserted[CHOOSE k \in Of(c) : TRUE])]
    /\ sess' = [sess EXCEPT ![s].w = NoWrites,
                            ![s].olock = FALSE,
                            ![s].vlock = FALSE,
                            ![s].clock = FALSE,
                            ![s].seen = Null,
                            ![s].qty = 0,
                            ![s].cachedWo = FALSE,
                            ![s].ret = "none",
                            ![s].result = "ok",
                            ![s].pc = "done"]
    /\ UNCHANGED <<created, stocktake, labels, summary, poller>>

\* ------------------------------------------------------------ barcodes
\* A barcode id is RJ-{product}-{colour}-{date}-{seq:03d}.  The identifiers
\* of one product, colour and day share their prefix and are kept as the
\* decimal digits of their last part.
Width == 3

RECURSIVE Digits(_)
Digits(n) == IF n < 10 THEN <<n>> ELSE Append(Digits(n \div 10), n % 10)

RECURSIVE ZeroPad(_)
ZeroPad(d) == IF Len(d) >= Width THEN d ELSE ZeroPad(<<0>> \o d)

\* f"{seq:03d}"
Format(seq) == ZeroPad(Digits(seq))

\* int(max_seq.split("-")[-1])
RECURSIVE ParseInt(_)
ParseInt(d) ==
    IF d = <<>> THEN 0
    ELSE 10 * ParseInt(SubSeq(d, 1, Len(d) - 1)) + d[Len(d)]

\* The greatest integer of a non-empty set.
Greatest(S) == CHOOSE m \in S : \A x \in S : x <= m

\* func.max(StockItem.barcode_id) over the rows with the prefix: the
\* greatest string of S in string order, compared character by character
\* from position k on (a string is greater than each of its beginnings).
RECURSIVE StrMaxFrom(_, _)
StrMaxFrom(S, k) ==
    LET longer == {x \in S : Len(x) >= k}
    IN IF longer = {} THEN CHOOSE x \in S : TRUE
       ELSE LET d == Greatest({x[k] : x \in longer})
            IN StrMaxFrom({x \in longer : x[k] = d}, k + 1)

StrMax(S) == IF S = {} THEN Null ELSE Some(StrMaxFrom(S, 1))

\* generate_barcode_ids: the next count identifiers after the greatest one
\* the query finds.
generate_barcode_ids(stored, count) ==
    LET max_seq == StrMax(stored)
        current_max == IF IsNull(max_seq) THEN 0 ELSE ParseInt(Val(max_seq))
    IN [i \in 1 .. count |-> Format(current_max + i)]

\* The elements of a sequence.
Range(q) == {q[k] : k \in DOMAIN q}

\* A caller (generate_labels, partial_repack) asks for count identifiers.
\* The query sees the committed rows.
GenerateBarcodeIds(s, count) ==
    /\ labels.call[s].pc \in {"idle", "done"}
    /\ Len(labels.returned) + count <= MaxBarcodes
    /\ LET ids == generate_barcode_ids(labels.stored, count)
       IN labels' = [labels EXCEPT
             !.returned = @ \o ids,
             !.call[s] = [pc |-> "allocated", ids |-> ids,
                          result |-> "none"]]
    /\ UNCHANGED <<created, order, items, verifs, cartons, movements,
                   stocktake, sess, writes,
                   summary, poller>>

\* create_stock_items (partial_repack: db.add(partial_item)) and db.flush():
\* the INSERTs.  barcode_id is unique: an INSERT of an identifier another
\* open transaction has inserted waits for that transaction, and an INSERT
\* of a committed identifier raises IntegrityError, which no caller
\* catches.
CreateStockItems(s) ==
    /\ labels.call[s].pc = "allocated"
    /\ \A t \in Sessions \ {s} :
          labels.call[t].pc = "inserted" =>
             Range(labels.call[t].ids) \cap Range(labels.call[s].ids) = {}
    /\ labels' = [labels EXCEPT !.call[s] =
          IF Range(labels.call[s].ids) \cap labels.stored # {}
          THEN [pc |-> "done", ids |-> <<>>, result |-> "integrity_error"]
          ELSE [@ EXCEPT !.pc = "inserted"]]
    /\ UNCHANGED <<created, order, items, verifs, cartons, movements,
                   stocktake, sess, writes,
                   summary, poller>>

\* db.commit() of generate_labels or of the partial-repack handler.
CommitStockItems(s) ==
    /\ labels.call[s].pc = "inserted"
    /\ labels' = [labels EXCEPT
          !.stored = @ \cup Range(labels.call[s].ids),
          !.call[s] = [pc |-> "done", ids |-> <<>>, result |-> "ok"]]
    /\ UNCHANGED <<created, order, items, verifs, cartons, movements,
                   stocktake, sess, writes,
                   summary, poller>>

\* ------------------------------------------------------ stock summary
\* A threshold or a quantity of the summary: any integer the columns hold.
ThresholdValues == (0 - 1) .. (MaxThreshold + 1)

\* Python's "x or 0": None and 0 both give 0.
OrZero(o) == IF IsNull(o) \/ Val(o) = 0 THEN 0 ELSE Val(o)

resolve_threshold_status_strict(total_quantity, red, amber) ==
    IF IsNull(red) /\ IsNull(amber) THEN Null
    ELSE IF total_quantity > OrZero(amber) THEN Some("green")
    ELSE IF total_quantity > OrZero(red) THEN Some("amber")
    ELSE Some("red")

\* _resolve_threshold_status(total_quantity, red, amber).
resolve_threshold_status(total_quantity, red, amber) ==
    IF IsNull(red) /\ IsNull(amber) THEN Null
    ELSE LET r == OrZero(red)
             a == OrZero(amber)
         IN IF total_quantity >= a THEN Some("green")
            ELSE IF total_quantity >= r THEN Some("amber")
            ELSE Some("red")

\* get_stock_summary builds the row of one product and colour: the status
\* of its total against the thresholds it looked up.
GetStockSummary ==
    /\ summary.pc = "idle"
    /\ summary' = [summary EXCEPT
          !.threshold_status =
              resolve_threshold_status(summary.total_units, summary.red,
                                       summary.amber),
          !.pc = "done"]
    /\ UNCHANGED <<created, order, items, verifs, cartons, movements,
                   stocktake, labels, poller, sess, writes>>

\* ------------------------------------------------------- email poller
\* GmailPoller.is_running.
is_running ==
    /\ ~IsNull(poller.task)
    /\ poller.tasks[Val(poller.task)] # "done"

\* The polling tasks that exist: created and not finished.
PollingTasks == {t \in Tasks : poller.tasks[t] \in {"wait", "poll"}}

\* The task asyncio.create_task creates next.
NewTask == CHOOSE t \in Tasks :
              /\ poller.tasks[t] = "none"
              /\ \A u \in Tasks : poller.tasks[u] = "none" => t <= u

PollerCall(kind, success) ==
    [pc |-> "done", kind |-> kind, success |-> success, awaits |-> 0]

\* POST /api/system/email-monitor/start: the handler and GmailPoller.start
\* run without suspending.
StartEmailMonitor(s) ==
    /\ poller.call[s].pc \in {"idle", "done"}
    /\ IF is_running
       THEN poller' = [poller EXCEPT !.call[s] = PollerCall("start", FALSE)]
       ELSE /\ \E t \in Tasks : poller.tasks[t] = "none"
            /\ poller' = [poller EXCEPT
                  !.stop_event = FALSE,
                  !.task = Some(NewTask),
                  !.tasks[NewTask] = "wait",
                  !.status_is_running = TRUE,
                  !.call[s] = PollerCall("start", TRUE)]
    /\ UNCHANGED <<created, order, items, verifs, cartons, movements,
                   stocktake, labels, summary, sess, writes>>

\* POST /api/system/email-monitor/stop up to "await self._task" in
\* GmailPoller.stop, where the request is suspended.
StopEmailMonitorBegin(s) ==
    /\ poller.call[s].pc \in {"idle", "done"}
    /\ IF ~is_running
       THEN poller' = [poller EXCEPT !.call[s] = PollerCall("stop", FALSE)]
       ELSE poller' = [poller EXCEPT
               !.stop_event = TRUE,
               !.call[s] = [pc |-> "awaiting", kind |-> "stop",
                            success |-> FALSE, awaits |-> Val(poller.task)]]
    /\ UNCHANGED <<created, order, items, verifs, cartons, movements,
                   stocktake, labels, summary, sess, writes>>

\* GmailPoller.stop after "await self._task": the awaited task is done.
StopEmailMonitorResume(s) ==
    /\ poller.call[s].pc = "awaiting"
    /\ poller.tasks[poller.call[s].awaits] = "done"
    /\ poller' = [poller EXCEPT
          !.task = Null,
          !.status_is_running = FALSE,
          !.call[s] = PollerCall("stop", TRUE)]
    /\ UNCHANGED <<created, order, items, verifs, cartons, movements,
                   stocktake, labels, summary, sess, writes>>

\* _background_loop at the loop test, on entry or after the wait: it ends
\* when the stop event is set and polls otherwise.
BackgroundLoopTest(t) ==
    /\ poller.tasks[t] = "wait"
    /\ poller' = [poller EXCEPT
          !.tasks[t] = IF poller.stop_event THEN "done" ELSE "poll"]
    /\ UNCHANGED <<created, order, items, verifs, cartons, movements,
                   stocktake, labels, summary, sess, writes>>

\* _background_loop: poll_once has returned or raised, the task waits for
\* the stop event or the interval.
BackgroundLoopPolled(t) ==
    /\ poller.tasks[t] = "poll"
    /\ poller' = [poller EXCEPT !.tasks[t] = "wait"]
    /\ UNCHANGED <<created, order, items, verifs, cartons, movements,
                   stocktake, labels, summary, sess, writes>>

\* ------------------------------------------------------ specifications
AllFree == \A s \in Sessions : Free(s)

\* One request at a time (request-per-operation): a request starts while
\* no session has a request in progress, and runs to its end.
Next ==
    \/ CreateVerificationsForOrder
    \/ \E s \in Sessions : AllFree /\ ApproveBegin(s)
    \/ \E s \in Sessions : ApproveFlush(s)
    \/ \E s \in Sessions : ApproveVerify(s)
    \/ \E s \in Sessions, v \in 1 .. Cardinality(Items), q \in VerifiedQtys :
          AllFree /\ ConfirmBegin(s, v, q)
    \/ \E s \in Sessions : ConfirmFlush(s)
    \/ \E s \in Sessions, v \in 1 .. Cardinality(Items) :
          AllFree /\ ExpireBegin(s, v)
    \/ \E s \in Sessions : ExpireFlush(s)
    \/ \E s \in Sessions : AllFree /\ RejectBegin(s)
    \/ \E s \in Sessions : AllFree /\ CheckBegin(s)
    \/ \E s \in Sessions : CheckAndGenerate(s)
    \/ \E s \in Sessions : GenerateAdjustedWorksOrders(s)
    \/ \E s \in Sessions : Commit(s)

Spec == Init /\ [][Next]_vars

\* Simultaneous requests: the steps of two sessions interleave at their
\* database statements.  The quantities play no part in the interleaving,
\* so both line items order MaxQty and a confirmation posts 1 or MaxQty.
ConcurrentQtys == {1, MaxQty}

InitConcurrent ==
    /\ Init
    /\ LineItems = Items
    /\ \A i \in Items : items[i].quantity = MaxQty

NextConcurrent ==
    \/ CreateVerificationsForOrder
    \/ \E s \in Sessions : ApproveBegin(s)
    \/ \E s \in Sessions : ApproveFlush(s)
    \/ \E s \in Sessions : ApproveVerify(s)
    \/ \E s \in Sessions, v \in 1 .. Cardinality(Items), q \in ConcurrentQtys :
          ConfirmBegin(s, v, q)
    \/ \E s \in Sessions : ConfirmFlush(s)
    \/ \E s \in Sessions, v \in 1 .. Cardinality(Items) : ExpireBegin(s, v)
    \/ \E s \in Sessions : ExpireFlush(s)
    \/ \E s \in Sessions : RejectBegin(s)
    \/ \E s \in Sessions : CheckBegin(s)
    \/ \E s \in Sessions : CheckAndGenerate(s)
    \/ \E s \in Sessions : GenerateAdjustedWorksOrders(s)
    \/ \E s \in Sessions : Commit(s)

SpecConcurrent == InitConcurrent /\ [][NextConcurrent]_vars

\* Order creation alone, over line items with and without product code,
\* catalogue match and colour, and cartons of every product, colour,
\* quantity and of several statuses.
InitCreate ==
    /\ \E code \in {"", "P2"}, matched \in {"", "P1"},
          colour \in {"", "Black", "White"}, matched2 \in {"", "P1"} :
         items = [i \in Items |->
                    IF i = 1 THEN ItemRow(code, matched, colour, 1)
                    ELSE ItemRow("P2", matched2, "Black", 1)]
    /\ cartons \in [Cartons ->
          {CartonRow(pc, col, q, st) :
             pc \in {"P1", "P2"}, col \in {"Black", "White"},
             q \in 0 .. MaxQty,
             st \in {"pending_scan", "in_stock", "picked"}}]
    /\ InitRest

NextCreate == CreateVerificationsForOrder

SpecCreate == InitCreate /\ [][NextCreate]_vars

\* create_verifications_for_order called any number of times, with
\* confirmations and expiries, one request at a time.
NextRepeat ==
    \/ CreateVerificationsForOrder
    \/ CreateVerificationsForOrderAgain
    \/ \E s \in Sessions, v \in 1 .. MaxVerifications, q \in ConcurrentQtys :
          AllFree /\ ConfirmBegin(s, v, q)
    \/ \E s \in Sessions : ConfirmFlush(s)
    \/ \E s \in Sessions, v \in 1 .. MaxVerifications :
          AllFree /\ ExpireBegin(s, v)
    \/ \E s \in Sessions : ExpireFlush(s)
    \/ \E s \in Sessions : CheckAndGenerate(s)
    \/ \E s \in Sessions : Commit(s)

SpecRepeat == Init /\ [][NextRepeat]_vars

\* One request at a time, where a document generator may raise.
NextFailure ==
    \/ Next
    \/ \E s \in Sessions, k \in {0} \cup Items : GenerationFails(s, k)

SpecFailure == Init /\ [][NextFailure]_vars

\* The warehouse: cartons not yet scanned in, in stock or picked, the
\* order's verifications created from them, and carton and stocktake
\* requests next to the requests on the order, one request at a time.
Deltas == (0 - (MaxQty + 1)) .. 1
Units == 0 .. MaxQty

InitStock ==
    /\ items = [i \in Items |->
                  IF i = 1 THEN ItemRow("p1-raw", "P1", "Black", MaxQty)
                  ELSE ItemRow("P2", "", "Black", MaxQty)]
    /\ \E st1 \in {"pending_scan", "in_stock"},
          st2 \in {"pending_scan", "in_stock", "picked"} :
         cartons = [c \in Cartons |->
                    IF c = 1 THEN CartonRow("P1", "Black", MaxQty, st1)
                    ELSE CartonRow("P2", "Black", 1, st2)]
    /\ InitRest

NextCartons ==
    \/ \E s \in Sessions, b \in Barcodes : AllFree /\ ScanInBegin(s, b)
    \/ \E s \in Sessions : ScanInFlush(s)
    \/ \E s \in Sessions, b \in Barcodes : AllFree /\ ScanOutBegin(s, b)
    \/ \E s \in Sessions : ScanOutFlush(s)
    \/ \E s \in Sessions, b \in Barcodes, t \in Units :
          AllFree /\ PartialRepackBegin(s, b, t)
    \/ \E s \in Sessions : PartialRepackFlush(s)
    \/ \E s \in Sessions, c \in Barcodes, d \in Deltas :
          AllFree /\ AdjustmentBegin(s, c, d)
    \/ \E s \in Sessions : AdjustmentFlush(s)
    \/ \E s \in Sessions : AllFree /\ StartStocktake(s)
    \/ \E s \in Sessions, a \in BOOLEAN : AllFree /\ CompleteStocktake(s, a)
    \/ \E s \in Sessions : Commit(s)

SpecStock == InitStock /\ [][NextCartons]_vars

\* The order next to the warehouse: line item 1 has stock on hand when its
\* verification is created, line item 2 has none; then requests on the
\* order, its verification and the cartons follow one another.
InitSnapshot ==
    /\ items = [i \in Items |->
                  IF i = 1 THEN ItemRow("p1-raw", "P1", "Black", MaxQty)
                  ELSE ItemRow("P2", "", "Black", MaxQty)]
    /\ cartons = [c \in Cartons |->
                    IF c = 1 THEN CartonRow("P1", "Black", MaxQty, "in_stock")
                    ELSE CartonRow("P1", "Black", 1, "pending_scan")]
    /\ InitRest

NextSnapshot ==
    \/ CreateVerificationsForOrder
    \/ \E s \in Sessions : AllFree /\ ApproveBegin(s)
    \/ \E s \in Sessions : ApproveFlush(s)
    \/ \E s \in Sessions : ApproveVerify(s)
    \/ \E s \in Sessions, v \in VerifIds : AllFree /\ ConfirmBegin(s, v, 1)
    \/ \E s \in Sessions : ConfirmFlush(s)
    \/ \E s \in Sessions, v \in VerifIds : AllFree /\ ExpireBegin(s, v)
    \/ \E s \in Sessions : ExpireFlush(s)
    \/ \E s \in Sessions : CheckAndGenerate(s)
    \/ \E s \in Sessions : GenerateAdjustedWorksOrders(s)
    \/ \E s \in Sessions, b \in DOMAIN cartons :
          created /\ AllFree /\ ScanInBegin(s, b)
    \/ \E s \in Sessions : ScanInFlush(s)
    \/ \E s \in Sessions, b \in DOMAIN cartons :
          created /\ AllFree /\ ScanOutBegin(s, b)
    \/ \E s \in Sessions : ScanOutFlush(s)
    \/ \E s \in Sessions, b \in DOMAIN cartons :
          created /\ AllFree /\ PartialRepackBegin(s, b, 1)
    \/ \E s \in Sessions : PartialRepackFlush(s)
    \/ \E s \in Sessions, c \in DOMAIN cartons :
          created /\ AllFree /\ AdjustmentBegin(s, c, 0 - 1)
    \/ \E s \in Sessions : AdjustmentFlush(s)
    \/ \E s \in Sessions : created /\ AllFree /\ StartStocktake(s)
    \/ \E s \in Sessions : created /\ AllFree /\ CompleteStocktake(s, TRUE)
    \/ \E s \in Sessions : Commit(s)

SpecSnapshot == InitSnapshot /\ [][NextSnapshot]_vars

\* Simultaneous carton requests on cartons that exist: the steps of two
\* sessions interleave at their database statements.
InitStockConcurrent ==
    /\ InitStock
    /\ cartons[1].status = "in_stock"
    /\ cartons[2].status = "pending_scan"

NextStockConcurrent ==
    \/ \E s \in Sessions, b \in DOMAIN cartons : ScanInBegin(s, b)
    \/ \E s \in Sessions : ScanInFlush(s)
    \/ \E s \in Sessions, b \in DOMAIN cartons : ScanOutBegin(s, b)
    \/ \E s \in Sessions : ScanOutFlush(s)
    \/ \E s \in Sessions, b \in DOMAIN cartons :
          PartialRepackBegin(s, b, 1)
    \/ \E s \in Sessions : PartialRepackFlush(s)
    \/ \E s \in Sessions, c \in DOMAIN cartons :
          AdjustmentBegin(s, c, 0 - 1)
    \/ \E s \in Sessions : AdjustmentFlush(s)
    \/ \E s \in Sessions : Commit(s)

SpecStockConcurrent == InitStockConcurrent /\ [][NextStockConcurrent]_vars

\* ============================================================== claims
NoPendingVerification == \A v \in VerifIds : verifs[v].status # "pending"
HasOfficeOrder == ~IsNull(order.office_order_file)
HasWorksOrder(i) == ~IsNull(items[i].works_order_file)

\* The completion check of session s runs in this step.
CheckRuns(s) == sess[s].pc = "check" /\ sess'[s].pc # "check"

\* C1: over any sequence of approve, confirm, expire and completion-check
\* calls the office order and every works order are written at most once
\* and a written document is never replaced; a completion check made after
\* the documents exist returns False and changes nothing.
C1_DocumentsWrittenOnce ==
    [][ /\ writes'.office <= 1
        /\ \A i \in Items : writes'.wo[i] <= 1
        /\ HasOfficeOrder =>
               order'.office_order_file = order.office_order_file
        /\ \A i \in LineItems :
               HasWorksOrder(i) =>
                  items'[i].works_order_file = items[i].works_order_file
        /\ \A s \in Sessions :
               (CheckRuns(s) /\ writes.office >= 1) =>
                  /\ sess'[s].ret = "false"
                  /\ sess'[s].w = sess[s].w
                  /\ <<order, items, verifs, writes>>' =
                        <<order, items, verifs, writes>> ]_vars

\* A completion check called again after the documents were written has
\* answered False.
C1_Witness ==
    \E s \in Sessions :
       /\ sess[s].kind = "check" /\ sess[s].ret = "false"
       /\ writes.office = 1
       /\ \E i \in Items : writes.wo[i] = 1

\* C2: the completion check answers True, and goes on to generate, exactly
\* when the order is approved or verified, no line item has a works order
\* and no verification of the order is pending; otherwise it answers False
\* and order, line items and verifications are unchanged.
C2_Holds(s) ==
    /\ ViewStatus(s) \in {"approved", "verified"}
    /\ \A i \in LineItems : ~HasWorksOrder(i)
    /\ \A v \in VerifIds : ViewVerif(s, v).status # "pending"

C3_GeneratedOnceApprovedAndResolved ==
    ( /\ AllFree
      /\ Len(verifs) >= 1
      /\ order.status \in {"approved", "verified", "works_order_generated"}
      /\ NoPendingVerification )
    => ( /\ order.status = "works_order_generated"
         /\ HasOfficeOrder )

\* C4: an order that carries a document is neither pending nor rejected and
\* has no pending verification.
C4_DocumentsOnlyAfterApprovalAndVerification ==
    (HasOfficeOrder \/ \E i \in LineItems : HasWorksOrder(i))
    => ( /\ order.status \notin {"pending", "rejected"}
         /\ NoPendingVerification )

\* Documents of an order that had a verification to wait for.
C4_Witness ==
    /\ HasOfficeOrder
    /\ \E i \in LineItems : HasWorksOrder(i)
    /\ Len(verifs) = Cardinality(Items)

Done(s, kind) ==
    sess[s].pc = "done" /\ sess[s].kind = kind /\ sess[s].result = "ok"

\* C5: when two confirmations of two different pending verifications of
\* one approved order run at the same time, exactly one of them writes the
\* documents: they are written once, not twice and not by neither.
C5_ExactlyOneConfirmationWrites ==
    ( /\ \A s \in Sessions : Done(s, "confirm") /\ sess[s].approvedAtStart
      /\ \A s, t \in Sessions : s # t => sess[s].vid # sess[t].vid )
    => ( /\ writes.office = 1
         /\ \A i \in Items : writes.wo[i] <= 1
         /\ order.status = "works_order_generated" )

\* C6: when approve_order and the confirmation of the last pending
\* verification run at the same time, then after both have committed the
\* documents have been generated exactly once and the order is
\* works_order_generated.
C6_ApprovalAndLastConfirmationGenerate ==
    ( /\ \E a, c \in Sessions :
           /\ Done(a, "approve")
           /\ Done(c, "confirm") /\ ~sess[c].approvedAtStart
      /\ NoPendingVerification
      /\ order.status \in {"approved", "verified", "works_order_generated"} )
    => ( /\ writes.office = 1
         /\ order.status = "works_order_generated" )

\* The quantity of confirmed stock credited to line item i: the
\* verified_quantity of its confirmed verification, 0 without one.
ConfirmedQty(i) ==
    LET S == {v \in VerifIds : /\ verifs[v].order_line_item_id = i
                               /\ verifs[v].status = "confirmed"}
    IN IF S = {} THEN 0
       ELSE Val(verifs[CHOOSE v \in S : TRUE].verified_quantity)

\* max(0, ordered - confirmed)
ProduceQty(i) ==
    IF items[i].quantity < ConfirmedQty(i) THEN 0
    ELSE items[i].quantity - ConfirmedQty(i)

\* C7: on an order that has verifications, the production quantity on each
\* works order is max(0, ordered - confirmed), with confirmed = 0 for a
\* line item without verification or with an expired one, and is never
\* negative.
C7_AdjustedQuantity ==
    Len(verifs) >= 1 =>
       \A i \in LineItems :
          HasWorksOrder(i) =>
             /\ Val(items[i].works_order_file).produce = ProduceQty(i)
             /\ Val(items[i].works_order_file).produce >= 0
             /\ Val(items[i].works_order_file).stock = Some(ConfirmedQty(i))

\* Works orders of an order with one verification confirmed below the
\* ordered quantity and one expired.
C7_Witness ==
    /\ order.status = "works_order_generated"
    /\ \E v \in VerifIds : verifs[v].status = "expired"
    /\ \E i \in LineItems :
          /\ HasWorksOrder(i)
          /\ ConfirmedQty(i) > 0
          /\ Val(items[i].works_order_file).produce < items[i].quantity
    /\ \E i \in LineItems :
          /\ HasWorksOrder(i)
          /\ ConfirmedQty(i) = 0
          /\ Val(items[i].works_order_file).produce = items[i].quantity

\* C8: on the adjusted-quantity path a line item with production quantity 0
\* gets no works order and every other line item gets exactly one; the
\* office order is written and the order is works_order_generated, also
\* when stock covers every line item.
C8_SkipsCoveredLineItems ==
    (Len(verifs) >= 1 /\ writes.office >= 1) =>
       /\ HasOfficeOrder
       /\ order.status = "works_order_generated"
       /\ \A i \in LineItems :
             /\ ProduceQty(i) = 0 =>
                   ~HasWorksOrder(i) /\ writes.wo[i] = 0
             /\ ProduceQty(i) > 0 =>
                   HasWorksOrder(i) /\ writes.wo[i] = 1

\* An order whose every line item is covered by confirmed stock.
C8_Witness ==
    /\ order.status = "works_order_generated"
    /\ HasOfficeOrder
    /\ \A i \in LineItems :
          /\ items[i].quantity > 0
          /\ ConfirmedQty(i) >= items[i].quantity
          /\ ~HasWorksOrder(i)

C10_Code(i) ==
    IF items[i].matched_product_code = "" THEN items[i].product_code
    ELSE items[i].matched_product_code

C10_OnHand(i) ==
    LET f[n \in 0 .. Cardinality(Cartons)] ==
          IF n = 0 THEN 0
          ELSE f[n - 1] +
               (IF /\ cartons[n].status = "in_stock"
                   /\ cartons[n].product_code = C10_Code(i)
                   /\ cartons[n].colour = items[i].colour
                THEN cartons[n].quantity ELSE 0)
    IN f[Cardinality(Cartons)]

\* C10: create_verifications_for_order creates a pending verification for a
\* line item exactly when the line item has a product code and a colour and
\* the summed quantity of the in_stock cartons of that product and colour
\* is above 0; system_stock_quantity is that sum.
C10_VerificationIffStock ==
    created =>
       \A i \in LineItems :
          LET V == {v \in VerifIds : verifs[v].order_line_item_id = i}
          IN /\ V # {} <=> ( /\ C10_Code(i) # ""
                             /\ items[i].colour # ""
                             /\ C10_OnHand(i) > 0 )
             /\ Cardinality(V) <= 1
             /\ \A v \in V :
                   /\ verifs[v].status = "pending"
                   /\ IsNull(verifs[v].verified_quantity)
                   /\ verifs[v].system_stock_quantity = C10_OnHand(i)
                   /\ verifs[v].product_code = C10_Code(i)
                   /\ verifs[v].colour = items[i].colour

\* A verification whose snapshot sums two in_stock cartons, and a line item
\* left without verification although a carton of its product and colour
\* exists in another status.
C10_Witness ==
    /\ created
    /\ \E v \in VerifIds :
          /\ verifs[v].system_stock_quantity = 2 * MaxQty
          /\ \A c \in Cartons : cartons[c].quantity = MaxQty
    /\ \E i \in LineItems :
          /\ \A v \in VerifIds : verifs[v].order_line_item_id # i
          /\ C10_Code(i) # "" /\ items[i].colour # ""

\* The verifications of line item i that are not expired.
ActiveVerifications(i) ==
    {v \in VerifIds : /\ verifs[v].order_line_item_id = i
                      /\ verifs[v].status # "expired"}

\* C11: every line item has at most one verification that is pending or
\* confirmed, whatever sequence of create_verifications_for_order (also
\* called again for the same order), confirm_verification and
\* expire_verification calls has run.
C11_AtMostOneActiveVerification ==
    \A i \in LineItems : Cardinality(ActiveVerifications(i)) <= 1

\* Session s starts a request of one of the kinds in this step.
Begins(s, kinds) ==
    /\ Free(s)
    /\ sess'[s] # sess[s]
    /\ sess'[s].kind \in kinds
    /\ sess'[s].pc \in {"flush", "commit", "check", "done"}

\* C12: a verification's status changes only from pending, to confirmed
\* (by a confirmation) or to expired (by an expiry), and a confirmed or
\* expired verification never changes again.  A confirm or expire request
\* on a verification that is not pending ends with an error and changes
\* neither the verifications nor the order nor a document; on an unknown
\* id it ends with the not-found error, which is a different one.
C12_VerificationTransitions ==
    [][ /\ \A v \in VerifIds :
              /\ verifs[v].status # "pending" => verifs'[v] = verifs[v]
              /\ verifs'[v].status # verifs[v].status =>
                    \E s \in Sessions :
                       /\ sess[s].vid = v /\ sess[s].pc = "commit"
                       /\ sess'[s].pc = "done"
                       /\ \/ /\ sess[s].kind = "confirm"
                             /\ verifs'[v].status = "confirmed"
                          \/ /\ sess[s].kind = "expire"
                             /\ verifs'[v].status = "expired"
        /\ \A s \in Sessions :
              Begins(s, {"confirm", "expire"}) =>
                 LET v == sess'[s].vid IN
                 /\ (sess'[s].result = "not_found") <=> v \notin VerifIds
                 /\ (sess'[s].result = "rejected") <=>
                       (v \in VerifIds /\ verifs[v].status # "pending")
                 /\ (sess'[s].pc = "flush") <=>
                       (v \in VerifIds /\ verifs[v].status = "pending")
                 /\ sess'[s].pc # "flush" =>
                       /\ sess'[s].pc = "done"
                       /\ sess'[s].w = NoWrites
                       /\ <<order, items, verifs, writes>>' =
                             <<order, items, verifs, writes>> ]_vars

\* An expiry of a confirmed verification has been refused.
C12_Witness ==
    \E s \in Sessions :
       /\ sess[s].kind = "expire" /\ sess[s].pc = "done"
       /\ sess[s].result = "rejected"
       /\ sess[s].vid \in VerifIds
       /\ verifs[sess[s].vid].status = "confirmed"
       /\ ~IsNull(verifs[sess[s].vid].verified_quantity)

\* C13: no step changes the system_stock_quantity of a verification:
\* neither a confirmation, an expiry, an approval or the document
\* generation, nor scan_in, scan_out, partial_repack, adjustment or the
\* completion of a stocktake, whatever they do to the stock on hand.
C13_SnapshotNeverChanges ==
    [][ /\ Len(verifs') >= Len(verifs)
        /\ \A v \in VerifIds :
              verifs'[v].system_stock_quantity =
                 verifs[v].system_stock_quantity ]_vars

\* A verification confirmed, and the order's documents written, after the
\* stock on hand of its product and colour has moved away from the
\* snapshot.
C13_Witness ==
    \E v \in VerifIds :
       /\ verifs[v].status = "confirmed"
       /\ verifs[v].system_stock_quantity = MaxQty
       /\ OnHand(cartons, verifs[v].product_code, verifs[v].colour) # MaxQty
       /\ order.status = "works_order_generated"
       /\ stocktake.status = "completed"

\* C14: an approval goes ahead exactly when the order is pending and has a
\* line item, a rejection exactly when the order is pending; a refused
\* request ends with an error and leaves status, approval metadata and
\* documents as they were.  A rejected or works_order_generated order
\* never changes again.
C14_ApproveRejectOnlyPending ==
    [][ /\ \A s \in Sessions :
              /\ Begins(s, {"approve"}) =>
                    /\ (sess'[s].pc = "flush") <=>
                          (order.status = "pending" /\ LineItems # {})
                    /\ (sess'[s].result = "no_line_items") <=>
                          (order.status = "pending" /\ LineItems = {})
                    /\ (sess'[s].result = "rejected") <=>
                          order.status # "pending"
              /\ Begins(s, {"reject"}) =>
                    /\ (sess'[s].pc = "commit") <=> order.status = "pending"
                    /\ (sess'[s].result = "rejected") <=>
                          order.status # "pending"
              /\ (Begins(s, {"approve", "reject"}) /\ sess'[s].pc = "done") =>
                    /\ sess'[s].w = NoWrites
                    /\ <<order, items, verifs, writes>>' =
                          <<order, items, verifs, writes>>
        /\ order.status \in {"rejected", "works_order_generated"} =>
              <<order, items>>' = <<order, items>>
        /\ order'.status = "rejected" =>
              order.status \in {"pending", "rejected"}
        /\ order'.status = "approved" =>
              order.status \in {"pending", "approved"} ]_vars

\* An approval of a rejected order has been refused.
C14_Witness ==
    \E s \in Sessions :
       /\ sess[s].kind = "approve" /\ sess[s].pc = "done"
       /\ sess[s].result = "rejected"
       /\ order.status = "rejected"
       /\ order.rejected_reason = Some("reason")
       /\ IsNull(order.approved_at)

\* The step in which a document generator raises inside session s.
FailsIn(s) == sess[s].pc = "generate" /\ sess'[s].result = "error"

\* C15: when document generation fails in the completion step, the
\* persisted order status is verified, and every verification keeps the
\* status and the confirmed quantity it had when the generation started.
C15_FailureLeavesVerified ==
    [][ \A s \in Sessions :
          FailsIn(s) =>
             /\ order'.status = "verified"
             /\ \A v \in VerifIds :
                   /\ verifs'[v].status = ViewVerif(s, v).status
                   /\ verifs'[v].verified_quantity =
                         ViewVerif(s, v).verified_quantity ]_vars

\* C16: after a generation failure that happened when some works order had
\* already been written, a re-invoked check_and_generate_works_orders that
\* runs to its end leaves the order in works_order_generated with its
\* documents.
C16_RetryCompletesOrder ==
    \A s \in Sessions :
       (writes.failure = "partial" /\ Done(s, "check")
           /\ order.status # "rejected") =>
          /\ order.status = "works_order_generated"
          /\ ~IsNull(order.office_order_file)

Terminal == {"picked", "scrapped", "consumed"}

\* C17: a carton that is picked, scrapped or consumed keeps its status
\* through every scan_in, scan_out, partial_repack, adjustment and
\* complete_session; no carton is removed and none becomes pending_scan.
C17_TerminalStatusIsFinal ==
    [][ \A c \in DOMAIN cartons :
           /\ c \in DOMAIN cartons'
           /\ cartons[c].status \in Terminal =>
                 cartons'[c].status = cartons[c].status
           /\ cartons'[c].status = "pending_scan" =>
                 cartons[c].status = "pending_scan" ]_vars

\* A scan-in of a picked carton has been refused after a stocktake
\* scrapped another carton.
C17_Witness ==
    /\ stocktake.status = "completed"
    /\ \E c \in DOMAIN cartons : cartons[c].status = "scrapped"
    /\ \E s \in Sessions :
          /\ sess[s].kind = "scan_in" /\ sess[s].pc = "done"
          /\ sess[s].result = "cannot_scan_in"
          /\ sess[s].cid \in DOMAIN cartons
          /\ cartons[sess[s].cid].status = "picked"

\* The status a request of the given kind needs the carton to be in.
SourceStatus(kind) ==
    IF kind = "scan_in" THEN "pending_scan" ELSE "in_stock"

\* C18: scan_in goes ahead only on a pending_scan carton, scan_out and
\* partial_repack only on an in_stock carton, partial_repack only with
\* 0 < units_taken < quantity; an unknown barcode is answered with the
\* not-recognised error and no other refusal is; a refused call leaves the
\* cartons and the movements as they were, and cartons and movements
\* change only where a request that went ahead commits.
C18_ScanPreconditions ==
    [][ /\ \A s \in Sessions :
              Begins(s, {"scan_in", "scan_out", "partial_repack"}) =>
                 LET b == sess'[s].cid
                     t == sess'[s].qty
                     known == b \in DOMAIN cartons
                 IN /\ (sess'[s].pc = "flush") <=>
                          /\ known
                          /\ cartons[b].status = SourceStatus(sess'[s].kind)
                          /\ sess'[s].kind = "partial_repack" =>
                                (0 < t /\ t < cartons[b].quantity)
                    /\ (sess'[s].result = "not_recognised") <=> ~known
                    /\ sess'[s].pc = "done" =>
                          /\ sess'[s].result # "ok"
                          /\ sess'[s].w = NoWrites
                          /\ cartons' = cartons /\ movements' = movements
        /\ (cartons' # cartons \/ movements' # movements) =>
              \/ stocktake' # stocktake
              \/ \E s \in Sessions :
                    /\ sess[s].pc = "commit" /\ sess'[s].result = "ok"
                    /\ sess[s].cid \in DOMAIN cartons
                    /\ sess[s].kind # "adjustment" =>
                          /\ cartons[sess[s].cid].status =
                                SourceStatus(sess[s].kind)
                          /\ cartons'[sess[s].cid].status #
                                SourceStatus(sess[s].kind) ]_vars

\* A partial_repack that takes the whole carton has been refused.
C18_Witness ==
    \E s \in Sessions :
       /\ sess[s].kind = "partial_repack" /\ sess[s].pc = "done"
       /\ sess[s].result = "units_not_below_quantity"
       /\ sess[s].cid \in DOMAIN cartons
       /\ cartons[sess[s].cid].status = "in_stock"
       /\ sess[s].qty = cartons[sess[s].cid].quantity

\* The movements of carton c that take it out of stock.
Departures(c) ==
    {k \in DOMAIN movements[c] :
        movements[c][k].movement_type \in {"stock_out", "partial_repack"}}

\* C19: of the requests that read a carton in one source status at most
\* one performs its transition and writes its movement: no carton is
\* scanned out twice, or both scanned out and repacked.
C19_OneTransitionPerSourceStatus ==
    \A c \in DOMAIN movements : Cardinality(Departures(c)) <= 1

\* C20: a partial_repack that takes t units from an in_stock carton of
\* quantity q leaves the original consumed and otherwise as it was, adds
\* exactly one carton (quantity q - t, partial, in_stock, parent the
\* original), writes exactly two movements, -q on the original and
\* +(q - t) on the new carton, and lowers the stock on hand of the product
\* and colour by t.
C20_PartialRepack ==
    [][ \A s \in Sessions :
          (sess[s].kind = "partial_repack" /\ sess[s].pc = "commit"
              /\ sess'[s].pc = "done") =>
             LET c == sess[s].cid
                 t == sess[s].qty
                 q == cartons[c].quantity
                 n == Len(cartons) + 1
             IN /\ cartons[c].status = "in_stock" /\ 0 < t /\ t < q
                /\ sess'[s].result = "ok"
                /\ Len(cartons') = n
                /\ cartons'[c] = [cartons[c] EXCEPT !.status = "consumed"]
                /\ cartons'[n] =
                      [product_code |-> cartons[c].product_code,
                       colour |-> cartons[c].colour,
                       quantity |-> q - t, status |-> "in_stock",
                       box_type |-> "partial",
                       parent_stock_item_id |-> Some(c)]
                /\ \A d \in DOMAIN cartons \ {c} :
                      /\ cartons'[d] = cartons[d]
                      /\ movements'[d] = movements[d]
                /\ movements'[c] =
                      Append(movements[c],
                             MovementRow(c, "partial_repack", 0 - q, Null))
                /\ movements'[n] =
                      << MovementRow(n, "stock_in", q - t, Null) >>
                /\ OnHand(cartons', cartons[c].product_code,
                          cartons[c].colour) =
                      OnHand(cartons, cartons[c].product_code,
                             cartons[c].colour) - t ]_vars

\* A partial_repack has committed: its carton is consumed and the last
\* carton is the remainder.
C20_Witness ==
    \E s \in Sessions :
       /\ sess[s].kind = "partial_repack" /\ sess[s].pc = "done"
       /\ sess[s].result = "ok"
       /\ cartons[sess[s].cid].status = "consumed"
       /\ cartons[Len(cartons)].parent_stock_item_id = Some(sess[s].cid)
       /\ cartons[Len(cartons)].status = "in_stock"

\* C21: every carton whose parent_stock_item_id is set names an existing
\* carton, and that carton is consumed.
C21_ParentIsConsumed ==
    \A c \in DOMAIN cartons :
       ~IsNull(cartons[c].parent_stock_item_id) =>
          /\ Val(cartons[c].parent_stock_item_id) \in DOMAIN cartons
          /\ cartons[Val(cartons[c].parent_stock_item_id)].status =
                "consumed"

\* A remainder carton exists and a later scan-out of its parent has been
\* refused.
C21_Witness ==
    \E c \in DOMAIN cartons, s \in Sessions :
       /\ cartons[c].parent_stock_item_id = Some(sess[s].cid)
       /\ sess[s].kind = "scan_out" /\ sess[s].pc = "done"
       /\ sess[s].result = "cannot_scan_out"

\* The step in which a request of one of the kinds commits in session s.
Commits(s, kinds) ==
    sess[s].kind \in kinds /\ sess[s].pc = "commit" /\ sess'[s].pc = "done"

C23_Adjustment ==
    [][ \A s \in Sessions :
          Commits(s, {"adjustment"}) =>
             LET c == sess[s].cid
                 d == sess[s].qty
                 q == cartons[c].quantity
             IN /\ cartons[c].status = "in_stock"
                /\ sess'[s].result = "ok"
                /\ cartons'[c] =
                      [cartons[c] EXCEPT
                          !.quantity = q + d,
                          !.status = IF q + d = 0 THEN "scrapped"
                                     ELSE "in_stock"]
                /\ DOMAIN cartons' = DOMAIN cartons
                /\ movements'[c] =
                      Append(movements[c],
                             MovementRow(c, "adjustment", d, Null))
                /\ \A e \in DOMAIN cartons \ {c} :
                      /\ cartons'[e] = cartons[e]
                      /\ movements'[e] = movements[e] ]_vars

\* An adjustment has taken a carton down to 0 and scrapped it.
C23_Witness ==
    \E s \in Sessions :
       /\ sess[s].kind = "adjustment" /\ sess[s].pc = "done"
       /\ sess[s].result = "ok"
       /\ cartons[sess[s].cid].quantity = 0
       /\ cartons[sess[s].cid].status = "scrapped"
       /\ LET ms == movements[sess[s].cid]
          IN /\ ms[Len(ms)].movement_type = "adjustment"
             /\ ms[Len(ms)].quantity_change < 0

\* Sequence a is the beginning of sequence b.
IsPrefix(a, b) ==
    Len(a) <= Len(b) /\ \A k \in 1 .. Len(a) : a[k] = b[k]

\* C24: a scan_in, scan_out or adjustment that succeeds appends exactly one
\* movement, to its carton, and a partial_repack exactly two, one to the
\* original and one to the new carton, in the step that changes the
\* cartons; a carton's status or quantity never changes without a movement
\* appended for it in the same step, a movement is appended only together
\* with its change (a change of 0 for an adjustment of 0), and no movement
\* is ever modified or removed.
C24_MovementWithEveryChange ==
    [][ /\ \A c \in DOMAIN movements :
              c \in DOMAIN movements' /\ IsPrefix(movements[c], movements'[c])
        /\ DOMAIN movements' = DOMAIN cartons'
        /\ \A s \in Sessions :
              /\ Commits(s, {"scan_in", "scan_out", "adjustment"}) =>
                    /\ Len(movements'[sess[s].cid]) =
                          Len(movements[sess[s].cid]) + 1
                    /\ DOMAIN movements' = DOMAIN movements
                    /\ \A e \in DOMAIN movements \ {sess[s].cid} :
                          movements'[e] = movements[e]
              /\ Commits(s, {"partial_repack"}) =>
                    /\ Len(movements'[sess[s].cid]) =
                          Len(movements[sess[s].cid]) + 1
                    /\ Len(movements') = Len(movements) + 1
                    /\ Len(movements'[Len(movements')]) = 1
                    /\ \A e \in DOMAIN movements \ {sess[s].cid} :
                          movements'[e] = movements[e]
        /\ \A c \in DOMAIN cartons :
              /\ cartons'[c] # cartons[c] =>
                    Len(movements'[c]) = Len(movements[c]) + 1
              /\ movements'[c] # movements[c] =>
                    \/ cartons'[c] # cartons[c]
                    \/ movements'[c][Len(movements'[c])].quantity_change = 0
        /\ \A c \in DOMAIN cartons' \ DOMAIN cartons :
              Len(movements'[c]) = 1 ]_vars

\* A scan-out has committed: the carton is picked and its last movement
\* is the stock_out of its quantity.
C24_Witness ==
    \E s \in Sessions :
       /\ sess[s].kind = "scan_out" /\ sess[s].pc = "done"
       /\ sess[s].result = "ok"
       /\ cartons[sess[s].cid].status = "picked"
       /\ LET ms == movements[sess[s].cid]
          IN ms[Len(ms)] = MovementRow(sess[s].cid, "stock_out",
                               0 - cartons[sess[s].cid].quantity, Null)

\* Callers of generate_barcode_ids for one product, colour and day, at the
\* same time, on a day with no carton yet, with one, and with as many as
\* the three digits count.
InitBarcode ==
    /\ items = [i \in Items |->
                  IF i = 1 THEN ItemRow("p1-raw", "P1", "Black", MaxQty)
                  ELSE ItemRow("P2", "", "Black", MaxQty)]
    /\ cartons = [c \in Cartons |->
                    IF c = 1 THEN CartonRow("P1", "Black", MaxQty, "in_stock")
                    ELSE CartonRow("P2", "Black", 1, "pending_scan")]
    /\ InitRows
    /\ \E n \in {0, 1, 10 ^ Width - 1} :
          labels = [NoLabels EXCEPT !.stored = {Format(k) : k \in 1 .. n}]
    /\ summary = NoSummary
    /\ poller = NoPoller

NextBarcode ==
    \/ \E s \in Sessions, count \in 1 .. MaxLabels :
          GenerateBarcodeIds(s, count)
    \/ \E s \in Sessions : CreateStockItems(s)
    \/ \E s \in Sessions : CommitStockItems(s)

SpecBarcode == InitBarcode /\ [][NextBarcode]_vars

\* C25: the identifiers generate_barcode_ids returns differ from each
\* other, from every identifier returned before and from every identifier
\* stored on a StockItem, also with two callers at the same time.
C25_BarcodesUnique ==
    [][ \A s \in Sessions :
          (labels.call[s].pc # "allocated"
              /\ labels'.call[s].pc = "allocated") =>
             LET ids == labels'.call[s].ids
             IN /\ \A j, k \in DOMAIN ids : j # k => ids[j] # ids[k]
                /\ Range(ids) \cap labels.stored = {}
                /\ Range(ids) \cap Range(labels.returned) = {} ]_vars

\* A stocktake session next to the carton requests, one request at a time:
\* cartons are scanned in and out, repacked and adjusted between the scans
\* of the session.
NextStocktake ==
    \/ \E s \in Sessions : AllFree /\ StartStocktake(s)
    \/ \E s \in Sessions, b \in Barcodes : AllFree /\ StocktakeScan(s, b)
    \/ \E s \in Sessions, a \in BOOLEAN : AllFree /\ CompleteStocktake(s, a)
    \/ \E s \in Sessions : AllFree /\ CancelStocktake(s)
    \/ \E s \in Sessions, b \in DOMAIN cartons : AllFree /\ ScanInBegin(s, b)
    \/ \E s \in Sessions : ScanInFlush(s)
    \/ \E s \in Sessions, b \in DOMAIN cartons : AllFree /\ ScanOutBegin(s, b)
    \/ \E s \in Sessions : ScanOutFlush(s)
    \/ \E s \in Sessions, b \in DOMAIN cartons :
          AllFree /\ PartialRepackBegin(s, b, 1)
    \/ \E s \in Sessions : PartialRepackFlush(s)
    \/ \E s \in Sessions, c \in DOMAIN cartons :
          AllFree /\ AdjustmentBegin(s, c, 0 - 1)
    \/ \E s \in Sessions : AdjustmentFlush(s)
    \/ \E s \in Sessions : Commit(s)

SpecStocktake == InitStock /\ [][NextStocktake]_vars

StocktakeKinds == {"process_stocktake_scan", "complete_session",
                   "cancel_session"}

\* C26: a stocktake session only goes from in_progress to completed or to
\* cancelled and never changes afterwards; a scan, a completion and a
\* cancellation go ahead exactly on a session in progress and a refused
\* one changes nothing; a cancellation sets the status and the completion
\* stamp of the session and changes no carton and no movement.
C26_StocktakeLifecycle ==
    [][ /\ stocktake.status \in {"completed", "cancelled"} =>
              stocktake' = stocktake
        /\ stocktake'.status # stocktake.status =>
              \/ stocktake.status = "none" /\ stocktake'.status = "in_progress"
              \/ /\ stocktake.status = "in_progress"
                 /\ stocktake'.status \in {"completed", "cancelled"}
        /\ \A s \in Sessions :
              /\ Begins(s, StocktakeKinds) =>
                    /\ (sess'[s].result = "ok") <=>
                          stocktake.status = "in_progress"
                    /\ sess'[s].result # "ok" =>
                          /\ stocktake' = stocktake
                          /\ cartons' = cartons /\ movements' = movements
              /\ (Begins(s, {"cancel_session"}) /\ sess'[s].result = "ok") =>
                    /\ stocktake' = [stocktake EXCEPT
                                        !.status = "cancelled",
                                        !.completed_at = Some("now")]
                    /\ cartons' = cartons /\ movements' = movements ]_vars

\* A cancellation of a cancelled session, which holds a scan, has been
\* refused.
C26_Witness ==
    \E s \in Sessions :
       /\ sess[s].kind = "cancel_session" /\ sess[s].pc = "done"
       /\ sess[s].result = "not_in_progress"
       /\ stocktake.status = "cancelled"
       /\ stocktake.completed_at = Some("now")
       /\ Len(stocktake.scans) > 0

\* The barcodes recorded in the session so far.
ScannedBarcodes ==
    {stocktake.scans[k].barcode_scanned : k \in DOMAIN stocktake.scans}

\* C27: a scan on a session in progress logs exactly one StocktakeScan row,
\* after the rows there are; its result is already_scanned if the barcode
\* is recorded in the session, else not_in_system if no carton has the
\* barcode, else wrong_status if the carton is not in_stock, else found;
\* total_scanned grows by one exactly when the result is found.  Nothing
\* else adds a row.
C27_ScanClassification ==
    [][ /\ \A s \in Sessions :
              (Begins(s, {"process_stocktake_scan"})
                  /\ sess'[s].result = "ok") =>
                 Len(stocktake'.scans) = Len(stocktake.scans) + 1
        /\ stocktake'.scans # stocktake.scans =>
              LET row == stocktake'.scans[Len(stocktake'.scans)]
                  b == row.barcode_scanned
              IN /\ stocktake.status = "in_progress"
                 /\ \E s \in Sessions :
                       /\ sess'[s].kind = "process_stocktake_scan"
                       /\ sess'[s].result = "ok" /\ sess'[s].cid = b
                 /\ stocktake'.scans = Append(stocktake.scans, row)
                 /\ row.scan_result =
                       IF b \in ScannedBarcodes THEN "already_scanned"
                       ELSE IF b \notin DOMAIN cartons THEN "not_in_system"
                       ELSE IF cartons[b].status # "in_stock"
                       THEN "wrong_status"
                       ELSE "found"
                 /\ stocktake'.total_scanned =
                       stocktake.total_scanned +
                          (IF row.scan_result = "found" THEN 1 ELSE 0)
                 /\ cartons' = cartons /\ movements' = movements
        /\ stocktake'.scans = stocktake.scans =>
              stocktake'.total_scanned = stocktake.total_scanned ]_vars

\* A barcode no carton has was scanned twice: the second scan is logged as
\* already_scanned and nothing was counted.
C27_Witness ==
    /\ Len(stocktake.scans) = 2
    /\ stocktake.scans[1].scan_result = "not_in_system"
    /\ stocktake.scans[2].scan_result = "already_scanned"
    /\ stocktake.scans[2].barcode_scanned \notin DOMAIN cartons
    /\ stocktake.total_scanned = 0

\* The step in which complete_session completes the session.
Completes == stocktake.status = "in_progress" /\ stocktake'.status = "completed"

\* The barcodes with a found scan in the session.
FoundInSession ==
    {b \in ScannedBarcodes :
        \E k \in DOMAIN stocktake.scans :
           /\ stocktake.scans[k].barcode_scanned = b
           /\ stocktake.scans[k].scan_result = "found"}

\* The cartons that are in_stock and have no found scan in the session.
Missing ==
    {c \in DOMAIN cartons :
        cartons[c].status = "in_stock" /\ c \notin FoundInSession}

\* The scans of the session classified not_in_system or wrong_status.
Unexpected ==
    {k \in DOMAIN stocktake.scans :
        stocktake.scans[k].scan_result \in {"not_in_system", "wrong_status"}}

\* C28: complete_session sets total_discrepancies to the number of cartons
\* that are in_stock without a found scan in the session plus the number
\* of scans classified not_in_system or wrong_status, sets the session to
\* completed and leaves its scans and its other counters as they were.
C28_TotalDiscrepancies ==
    [][ Completes =>
          /\ \E s \in Sessions :
                /\ sess'[s].kind = "complete_session"
                /\ sess'[s].result = "ok"
          /\ stocktake' =
                [stocktake EXCEPT
                    !.status = "completed",
                    !.completed_at = Some("now"),
                    !.total_discrepancies =
                        Cardinality(Missing) + Cardinality(Unexpected)] ]_vars

\* A session has been completed with a missing carton and a scan of a
\* carton that was not in stock.
C28_Witness ==
    /\ stocktake.status = "completed"
    /\ stocktake.total_discrepancies = 2
    /\ \E k \in DOMAIN stocktake.scans :
          stocktake.scans[k].scan_result = "wrong_status"
    /\ \E k \in DOMAIN stocktake.scans :
          stocktake.scans[k].scan_result = "found"

\* C29: complete_session with auto_adjust sets every carton that is
\* in_stock and was never found in the session to scrapped and appends to
\* its movements exactly one adjustment of minus its quantity, tagged with
\* the session; it touches no other carton and no other movement.  Without
\* auto_adjust it changes no carton and no movement.
C29_AutoAdjust ==
    [][ Completes =>
          \E s \in Sessions :
             /\ sess'[s].kind = "complete_session" /\ sess'[s].result = "ok"
             /\ DOMAIN cartons' = DOMAIN cartons
             /\ \A c \in DOMAIN cartons :
                   IF sess'[s].auto_adjust /\ c \in Missing
                   THEN /\ cartons'[c] =
                              [cartons[c] EXCEPT !.status = "scrapped"]
                        /\ movements'[c] =
                              Append(movements[c],
                                  MovementRow(c, "adjustment",
                                              0 - cartons[c].quantity,
                                              Some("session")))
                   ELSE /\ cartons'[c] = cartons[c]
                        /\ movements'[c] = movements[c] ]_vars

\* A completion with auto_adjust has scrapped a missing carton and left a
\* found carton in stock.
C29_Witness ==
    /\ stocktake.status = "completed"
    /\ \E s \in Sessions :
          sess[s].kind = "complete_session" /\ sess[s].auto_adjust
    /\ \E c \in DOMAIN cartons :
          /\ cartons[c].status = "scrapped"
          /\ movements[c][Len(movements[c])].stocktake_session_id =
                Some("session")
    /\ \E c \in DOMAIN cartons :
          cartons[c].status = "in_stock" /\ c \in FoundInSession

\* The step in which complete_session(auto_adjust = True) completes the
\* session.
CompletesWithAutoAdjust ==
    /\ Completes
    /\ \E s \in Sessions :
          /\ sess'[s].kind = "complete_session" /\ sess'[s].result = "ok"
          /\ sess'[s].auto_adjust

\* The cartons the step scraps.
ScrappedInStep ==
    {c \in DOMAIN cartons :
        cartons[c].status # "scrapped" /\ cartons'[c].status = "scrapped"}

\* The number of found scans of the session.
FoundScans ==
    Cardinality({k \in DOMAIN stocktake.scans :
                    stocktake.scans[k].scan_result = "found"})

InitThreshold ==
    /\ items = [i \in Items |->
                  IF i = 1 THEN ItemRow("p1-raw", "P1", "Black", MaxQty)
                  ELSE ItemRow("P2", "", "Black", MaxQty)]
    /\ cartons = [c \in Cartons |->
                    IF c = 1 THEN CartonRow("P1", "Black", MaxQty, "in_stock")
                    ELSE CartonRow("P2", "Black", MaxQty, "in_stock")]
    /\ InitRows
    /\ labels = NoLabels
    /\ poller = NoPoller
    /\ \E q \in ThresholdValues,
          red \in {Null} \cup {Some(v) : v \in ThresholdValues},
          amber \in {Null} \cup {Some(v) : v \in ThresholdValues} :
         summary = [NoSummary EXCEPT !.total_units = q, !.red = red,
                                     !.amber = amber]

NextThreshold == GetStockSummary

SpecThreshold == InitThreshold /\ [][NextThreshold]_vars

\* C31: threshold_status(quantity, red, amber) is no status when both
\* thresholds are unset; otherwise, an unset threshold counting as 0, it is
\* green when quantity >= amber, else amber when quantity >= red, else red.
C31_ThresholdStatus ==
    summary.pc = "done" =>
       LET q == summary.total_units
           red == IF IsNull(summary.red) THEN 0 ELSE Val(summary.red)
           amber == IF IsNull(summary.amber) THEN 0 ELSE Val(summary.amber)
       IN IF IsNull(summary.red) /\ IsNull(summary.amber)
          THEN IsNull(summary.threshold_status)
          ELSE summary.threshold_status =
                  Some(CASE q >= amber -> "green"
                         [] q < amber /\ q >= red -> "amber"
                         [] OTHER -> "red")

\* A total of 1 with only the amber threshold set, to 2: amber.
C31_Witness ==
    /\ summary.pc = "done"
    /\ IsNull(summary.red)
    /\ summary.amber = Some(2)
    /\ summary.total_units = 1
    /\ summary.threshold_status = Some("amber")

\* C32: generate_barcode_ids returns the sequence numbers m+1 .. m+count,
\* padded with zeros to at least three digits, where m is the numerically
\* highest sequence number stored for the prefix (0 when none is stored),
\* also when the stored numbers reach or pass 999.
C32_ContinuesFromHighest ==
    [][ \A s \in Sessions :
          (labels.call[s].pc # "allocated"
              /\ labels'.call[s].pc = "allocated") =>
             LET ids == labels'.call[s].ids
                 m == IF labels.stored = {} THEN 0
                      ELSE Greatest({ParseInt(x) : x \in labels.stored})
             IN ids = [i \in 1 .. Len(ids) |-> Format(m + i)] ]_vars

\* C33: the write-off of a missing carton by complete_session(auto_adjust =
\* True) leaves the carton as adjustment(carton, -quantity) would: status
\* scrapped, quantity 0 and one more movement, an adjustment of -quantity.
C33_WriteOffIsAdjustment ==
    [][ CompletesWithAutoAdjust =>
          \A c \in ScrappedInStep :
             LET delta == 0 - cartons[c].quantity
                 new_quantity == cartons[c].quantity + delta
             IN /\ cartons'[c].quantity = new_quantity
                /\ cartons'[c].status =
                      (IF new_quantity = 0 THEN "scrapped"
                       ELSE cartons[c].status)
                /\ Len(movements'[c]) = Len(movements[c]) + 1
                /\ LET mv == movements'[c][Len(movements'[c])]
                   IN /\ mv.movement_type = "adjustment"
                      /\ mv.quantity_change = delta ]_vars

\* The email monitor with no request in flight.
InitPoller ==
    /\ items = [i \in Items |->
                  IF i = 1 THEN ItemRow("p1-raw", "P1", "Black", MaxQty)
                  ELSE ItemRow("P2", "", "Black", MaxQty)]
    /\ cartons = [c \in Cartons |->
                    IF c = 1 THEN CartonRow("P1", "Black", MaxQty, "in_stock")
                    ELSE CartonRow("P2", "Black", MaxQty, "in_stock")]
    /\ InitRest

\* No stop request is suspended at "await self._task".
NoneAwaiting == \A s \in Sessions : poller.call[s].pc # "awaiting"

\* Start and stop requests one at a time: a request is made when the one
\* before it has been answered. The polling task runs beside them.
NextPoller ==
    \/ NoneAwaiting /\ \E s \in Sessions : StartEmailMonitor(s)
    \/ NoneAwaiting /\ \E s \in Sessions : StopEmailMonitorBegin(s)
    \/ \E s \in Sessions : StopEmailMonitorResume(s)
    \/ \E t \in Tasks : BackgroundLoopTest(t)
    \/ \E t \in Tasks : BackgroundLoopPolled(t)

SpecPoller == InitPoller /\ [][NextPoller]_vars

\* Start and stop requests that overlap, each in its own asyncio task of
\* the one event loop: a stop request suspended at "await self._task"
\* resumes in a later step of the loop than the one in which the polling
\* task finished, and another request can run in between.
NextPollerOverlapping ==
    \/ \E s \in Sessions : StartEmailMonitor(s)
    \/ \E s \in Sessions : StopEmailMonitorBegin(s)
    \/ \E s \in Sessions : StopEmailMonitorResume(s)
    \/ \E t \in Tasks : BackgroundLoopTest(t)
    \/ \E t \in Tasks : BackgroundLoopPolled(t)

SpecPollerOverlapping == InitPoller /\ [][NextPollerOverlapping]_vars

\* C34: the poller is stopped or running; a start request while running
\* and a stop request while stopped answer success false and change
\* nothing; start from stopped yields running and stop from running
\* yields stopped; at no time is there more than one polling task.
C34_PollerStates ==
    [][ /\ \A s \in Sessions :
             /\ (poller.call[s].pc \in {"idle", "done"}
                   /\ poller'.call[s] = PollerCall("start", FALSE)
                   /\ poller'.call[s] # poller.call[s]) =>
                   /\ is_running
                   /\ poller'.task = poller.task
                   /\ poller'.tasks = poller.tasks
             /\ (poller.call[s].pc \in {"idle", "done"}
                   /\ poller'.call[s] = PollerCall("stop", FALSE)
                   /\ poller'.call[s] # poller.call[s]) =>
                   /\ ~is_running
                   /\ poller'.task = poller.task
                   /\ poller'.tasks = poller.tasks
             /\ (poller'.call[s] = PollerCall("start", TRUE)
                   /\ poller'.call[s] # poller.call[s]) =>
                   /\ ~is_running
                   /\ is_running'
             /\ (poller.call[s].pc = "awaiting"
                   /\ poller'.call[s] = PollerCall("stop", TRUE)) =>
                   ~is_running'
        /\ Cardinality(PollingTasks') <= 1 ]_vars

\* The sum of quantity_change over a sequence of movements.
RECURSIVE SumOfChanges(_)
SumOfChanges(ms) ==
    IF ms = <<>> THEN 0
    ELSE ms[1].quantity_change + SumOfChanges(Tail(ms))

\* C35: for every carton the quantity_change of its movements adds up to
\* its quantity while it is in_stock and to 0 while it is pending_scan,
\* picked, consumed or scrapped.
C35_Ledger ==
    \A c \in DOMAIN cartons :
       SumOfChanges(movements[c]) =
          (IF cartons[c].status = "in_stock" THEN cartons[c].quantity
           ELSE 0)

\* A remainder carton of a partial repack has been adjusted and is in
\* stock, its parent is consumed, and the stocktake has written off a
\* carton.
C35_Witness ==
    /\ \E c \in DOMAIN cartons :
          /\ ~IsNull(cartons[c].parent_stock_item_id)
          /\ cartons[c].status = "in_stock"
          /\ Len(movements[c]) = 2
          /\ movements[c][2].movement_type = "adjustment"
          /\ cartons[Val(cartons[c].parent_stock_item_id)].status =
                "consumed"
    /\ \E c \in DOMAIN cartons :
          /\ cartons[c].status = "scrapped"
          /\ movements[c][Len(movements[c])].stocktake_session_id =
                Some("session")

\* The scans of the session with result found and barcode b.
FoundRows(b) ==
    {k \in DOMAIN stocktake.scans :
        /\ stocktake.scans[k].barcode_scanned = b
        /\ stocktake.scans[k].scan_result = "found"}

\* C36: the session's total_scanned is the number of its scans with result
\* found, and no barcode has more than one found scan in the session.
C36_TotalScanned ==
    /\ stocktake.total_scanned = FoundScans
    /\ \A b \in Barcodes : Cardinality(FoundRows(b)) <= 1

\* A carton in stock was scanned twice: found, then already_scanned, and
\* counted once.
C36_Witness ==
    /\ Len(stocktake.scans) = 2
    /\ stocktake.scans[1].scan_result = "found"
    /\ stocktake.scans[2].scan_result = "already_scanned"
    /\ stocktake.scans[2].barcode_scanned = stocktake.scans[1].barcode_scanned
    /\ stocktake.total_scanned = 1

\* The cartons with a scan in the session that was recorded while the
\* carton was in_stock.
ScannedInStock ==
    {c \in DOMAIN cartons :
        \E k \in DOMAIN stocktake.scans :
           /\ stocktake.scans[k].barcode_scanned = c
           /\ stocktake.scans[k].stock_item_status = Some("in_stock")}

\* C37: a carton scanned in the session while it was in_stock is not
\* counted as missing and not written off by complete_session, whatever
\* scans of its barcode the session recorded before.
C37_ScannedInStockNotMissing ==
    [][ Completes =>
          /\ ScrappedInStep \cap ScannedInStock = {}
          /\ stocktake'.total_discrepancies <=
                Cardinality(InStock \ ScannedInStock)
                   + Cardinality(Unexpected) ]_vars

\* C38: the production quantity on a line item's works order is never
\* above the line item's ordered quantity, whatever verified_quantity
\* confirm_verification accepted.
C38_ProduceAtMostOrdered ==
    \A i \in LineItems :
       HasWorksOrder(i) =>
          Val(items[i].works_order_file).produce <= items[i].quantity

\* C39: an order in status works_order_generated has an office order, has
\* no pending verification, and each of its line items has a works order
\* or a confirmed verification whose verified_quantity is at least the
\* ordered quantity.
C39_Completeness ==
    order.status = "works_order_generated" =>
       /\ HasOfficeOrder
       /\ \A v \in VerifIds : verifs[v].status # "pending"
       /\ \A i \in LineItems :
             \/ HasWorksOrder(i)
             \/ \E v \in VerifIds :
                   /\ verifs[v].order_line_item_id = i
                   /\ verifs[v].status = "confirmed"
                   /\ Val(verifs[v].verified_quantity) >= items[i].quantity

====
